---- MODULE Spec2Model ----
(***************************************************************************)
(* Pricing endpoints of the catalog backend: the listing (get_all_prices)  *)
(* and the quote (sum_price) over pricing-strategy documents, with the     *)
(* pydantic schemas that decode them and Python's float arithmetic.        *)
(***************************************************************************)
EXTENDS Integers, Sequences, FiniteSets, TLC

(***************************************************************************)
(* Unbounded naturals.  A Python float is an IEEE 754 binary64 whose       *)
(* 53-bit significand does not fit the model checker's integers, so a      *)
(* natural is kept as a little-endian sequence of limbs below 2^15 with no *)
(* leading zero limb (<<>> is zero).                                       *)
(***************************************************************************)
Limb == 2^15

RECURSIVE Pow2(_)
Pow2(k) == IF k = 0 THEN 1 ELSE 2 * Pow2(k - 1)

Abs(n) == IF n < 0 THEN -n ELSE n

RECURSIVE BigStrip(_)
BigStrip(a) ==
    IF a = <<>> THEN <<>>
    ELSE IF a[Len(a)] = 0 THEN BigStrip(SubSeq(a, 1, Len(a) - 1))
    ELSE a

RECURSIVE BigOf(_)
BigOf(n) == IF n = 0 THEN <<>> ELSE <<n % Limb>> \o BigOf(n \div Limb)

RECURSIVE BigVal(_)
BigVal(a) == IF a = <<>> THEN 0 ELSE a[1] + Limb * BigVal(Tail(a))

RECURSIVE BigAddC(_, _, _)
BigAddC(a, b, c) ==
    IF a = <<>> /\ b = <<>> THEN (IF c = 0 THEN <<>> ELSE <<c>>)
    ELSE LET x == IF a = <<>> THEN 0 ELSE a[1]
             y == IF b = <<>> THEN 0 ELSE b[1]
             s == x + y + c
         IN  <<s % Limb>> \o BigAddC(IF a = <<>> THEN <<>> ELSE Tail(a),
                                     IF b = <<>> THEN <<>> ELSE Tail(b),
                                     s \div Limb)

BigAdd(a, b) == BigAddC(a, b, 0)

RECURSIVE BigSubB(_, _, _)
BigSubB(a, b, c) ==
    IF a = <<>> THEN <<>>
    ELSE LET y == IF b = <<>> THEN 0 ELSE b[1]
             d == a[1] - y - c
         IN  <<IF d < 0 THEN d + Limb ELSE d>>
                 \o BigSubB(Tail(a), IF b = <<>> THEN <<>> ELSE Tail(b),
                            IF d < 0 THEN 1 ELSE 0)

\* a - b for a >= b
BigSub(a, b) == BigStrip(BigSubB(a, b, 0))

RECURSIVE BigMulSmallC(_, _, _)
BigMulSmallC(a, s, c) ==
    IF a = <<>> THEN (IF c = 0 THEN <<>> ELSE <<c>>)
    ELSE LET t == a[1] * s + c
         IN  <<t % Limb>> \o BigMulSmallC(Tail(a), s, t \div Limb)

\* a * s for 0 <= s < Limb
BigMulSmall(a, s) == BigStrip(BigMulSmallC(a, s, 0))

RECURSIVE BigMul(_, _)
BigMul(a, b) ==
    IF a = <<>> \/ b = <<>> THEN <<>>
    ELSE BigAdd(BigMulSmall(a, b[1]), BigStrip(<<0>> \o BigMul(a, Tail(b))))

RECURSIVE BigCmpTop(_, _, _)
BigCmpTop(a, b, i) ==
    IF i = 0 THEN 0
    ELSE IF a[i] < b[i] THEN -1
    ELSE IF a[i] > b[i] THEN 1
    ELSE BigCmpTop(a, b, i - 1)

\* -1, 0, 1 as a < b, a = b, a > b
BigCmp(a, b) ==
    IF Len(a) < Len(b) THEN -1
    ELSE IF Len(a) > Len(b) THEN 1
    ELSE BigCmpTop(a, b, Len(a))

RECURSIVE BigDivSmallR(_, _, _)
\* <<quotient limbs, remainder>> of a \div d, from the top limb down
BigDivSmallR(a, d, i) ==
    IF i > Len(a) THEN <<<<>>, 0>>
    ELSE LET hi == BigDivSmallR(a, d, i + 1)
             t  == hi[2] * Limb + a[i]
         IN  <<<<t \div d>> \o hi[1], t % d>>

BigDivSmall(a, d) == BigStrip(BigDivSmallR(a, d, 1)[1])

BigModSmall(a, d) == BigDivSmallR(a, d, 1)[2]

\* a * 2^k
BigShl(a, k) ==
    IF a = <<>> THEN <<>>
    ELSE [i \in 1..(k \div 15) |-> 0] \o BigMulSmall(a, Pow2(k % 15))

\* a \div 2^k
BigShr(a, k) ==
    IF Len(a) <= k \div 15 THEN <<>>
    ELSE BigDivSmall(SubSeq(a, (k \div 15) + 1, Len(a)), Pow2(k % 15))

RECURSIVE SmallBits(_)
SmallBits(n) == IF n = 0 THEN 0 ELSE 1 + SmallBits(n \div 2)

BitLen(a) == IF a = <<>> THEN 0 ELSE 15 * (Len(a) - 1) + SmallBits(a[Len(a)])

\* q or q + 1 as the remainder compares to one half (c) and q is odd
BigRoundUp(q, c) ==
    IF c > 0 \/ (c = 0 /\ q # <<>> /\ q[1] % 2 = 1) THEN BigAdd(q, <<1>>) ELSE q

\* a / 2^k rounded to the nearest natural, a tie to the even one
BigShrHalfEven(a, k) ==
    IF k = 0 THEN a
    ELSE BigRoundUp(BigShr(a, k),
                    BigCmp(BigSub(a, BigShl(BigShr(a, k), k)), BigShl(<<1>>, k - 1)))

(***************************************************************************)
(* Python floats.  A finite binary64 is [neg, man, exp] with value         *)
(* (-1)^neg * man * 2^exp, where man is zero (exp 0) or has exactly        *)
(* DblPrecision bits.  Every operation rounds its exact result to the      *)
(* nearest float, a tie to the even significand.  The magnitudes of the    *)
(* pricing documents stay far from overflow and from subnormals.           *)
(***************************************************************************)
DblPrecision == 53

DblZero(neg) == [neg |-> neg, man |-> <<>>, exp |-> 0]

\* a rounded significand q may have reached 2^DblPrecision
DblNormal(neg, q, e) ==
    IF BitLen(q) > DblPrecision
    THEN [neg |-> neg, man |-> BigShr(q, 1), exp |-> e + 1]
    ELSE [neg |-> neg, man |-> q, exp |-> e]

\* the float nearest to (-1)^neg * n * 2^e, for n # 0 of bl bits
DblOfBits(neg, n, e, bl) ==
    IF bl <= DblPrecision
    THEN [neg |-> neg, man |-> BigShl(n, DblPrecision - bl),
          exp |-> e - (DblPrecision - bl)]
    ELSE DblNormal(neg, BigShrHalfEven(n, bl - DblPrecision), e + (bl - DblPrecision))

\* the float nearest to (-1)^neg * n * 2^e
RoundToDbl(neg, n, e) ==
    IF n = <<>> THEN DblZero(neg) ELSE DblOfBits(neg, n, e, BitLen(n))

\* a quotient with one more bit that is set when the remainder is not zero
BigSticky(qr) ==
    BigAdd(BigShl(BigStrip(qr[1]), 1), IF qr[2] = 0 THEN <<>> ELSE <<1>>)

\* the float nearest to (-1)^neg * n / d, for a natural n and 0 < d < Limb:
\* the quotient is taken with 64 extra bits and a sticky bit for the remainder
BigTrueDiv(neg, n, d) ==
    IF n = <<>> THEN DblZero(neg)
    ELSE RoundToDbl(neg, BigSticky(BigDivSmallR(BigShl(n, 64), d, 1)), -65)

\* Python's a / b on two ints, b > 0 (int.__truediv__ is correctly rounded)
IntTrueDiv(a, b) == BigTrueDiv(a < 0, BigOf(Abs(a)), b)

\* float(n) for an int n
FloatOfInt(n) == RoundToDbl(n < 0, BigOf(Abs(n)), 0)

\* x * y on two floats
FloatMul(x, y) == RoundToDbl(x.neg # y.neg, BigMul(x.man, y.man), x.exp + y.exp)

\* the sign and magnitude of (-1)^xneg * xm + (-1)^yneg * ym, c comparing xm to ym
BigSignedSum(xneg, xm, yneg, ym, c) ==
    IF xneg = yneg THEN [neg |-> xneg, mag |-> BigAdd(xm, ym)]
    ELSE IF c = 0 THEN [neg |-> FALSE, mag |-> <<>>]
    ELSE IF c > 0 THEN [neg |-> xneg, mag |-> BigSub(xm, ym)]
    ELSE [neg |-> yneg, mag |-> BigSub(ym, xm)]

DblOfSum(s, e) == RoundToDbl(s.neg, s.mag, e)

\* x + y on two floats that are not zero, e the smaller exponent
FloatAddAt(x, y, e) ==
    DblOfSum(BigSignedSum(x.neg, BigShl(x.man, x.exp - e), y.neg, BigShl(y.man, y.exp - e),
                          BigCmp(BigShl(x.man, x.exp - e), BigShl(y.man, y.exp - e))),
             e)

\* x + y on two floats
FloatAdd(x, y) ==
    IF x.man = <<>> /\ y.man = <<>> THEN DblZero(x.neg /\ y.neg)
    ELSE IF x.man = <<>> THEN y
    ELSE IF y.man = <<>> THEN x
    ELSE FloatAddAt(x, y, IF x.exp < y.exp THEN x.exp ELSE y.exp)

\* |x| * 100 rounded to the nearest natural (a tie to even), as a natural
BigCentsOf(x) ==
    LET n == BigMulSmall(x.man, 100)
    IN  IF x.exp >= 0 THEN BigShl(n, x.exp) ELSE BigShrHalfEven(n, -x.exp)

\* round(x, 2): the exact binary value of x is rounded to two decimal digits,
\* a tie to the even digit, and the decimal result is converted back to the
\* nearest float; a zero keeps its sign
FloatRound2(x) ==
    IF x.man = <<>> THEN x ELSE BigTrueDiv(x.neg, BigCentsOf(x), 100)

\* whether the float has no fractional part
FloatIsIntegral(x) ==
    \/ x.man = <<>>
    \/ x.exp >= 0
    \/ /\ -x.exp < DblPrecision
       /\ BigShl(BigShr(x.man, -x.exp), -x.exp) = x.man

\* the int equal to an integral float
FloatToInt(x) ==
    LET n == IF x.exp >= 0 THEN BigVal(BigShl(x.man, x.exp))
             ELSE BigVal(BigShr(x.man, -x.exp))
    IN  IF x.neg THEN -n ELSE n

(***************************************************************************)
(* JSON documents.  An object is a function from its keys to its values;   *)
(* a leaf is [int |-> n] for an integer and [str |-> s] for a string that  *)
(* is no integer.  A key that is absent is not in the DOMAIN.              *)
(***************************************************************************)
JInt(n) == [int |-> n]

JStr(s) == [str |-> s]

IsLeaf(v) == DOMAIN v # {} /\ DOMAIN v \subseteq {"int", "str"}

Has(obj, key) == key \in DOMAIN obj

\* the outcome of validating one value: the errors found (location and type)
\* and the validated value, which is meaningful when there is no error
Valid(v) == [errors |-> {}, value |-> v]

Invalid(loc, type) == [errors |-> {<<loc, type>>}, value |-> 0]

\* a variant of the field: annotated with a lower bound, Field(0, ge=0)
IntFieldNonNegative(obj, key, loc) ==
    IF ~Has(obj, key) THEN Valid(0)
    ELSE IF Has(obj[key], "int")
    THEN (IF obj[key].int >= 0 THEN Valid(obj[key].int)
          ELSE Invalid(loc \o "." \o key, "greater_than_equal"))
    ELSE IF Has(obj[key], "str") THEN Invalid(loc \o "." \o key, "int_parsing")
    ELSE Invalid(loc \o "." \o key, "int_type")

\* a field annotated "int = 0": the default when the key is absent, the
\* integer when the value is one, an error otherwise
IntField(obj, key, loc) ==
    IF ~Has(obj, key) THEN Valid(0)
    ELSE IF Has(obj[key], "int") THEN Valid(obj[key].int)
    ELSE IF Has(obj[key], "str") THEN Invalid(loc \o "." \o key, "int_parsing")
    ELSE Invalid(loc \o "." \o key, "int_type")

\* class ottomanFlat: count: int = 0, price: int = 0
ottomanFlat(v, loc) ==
    IF IsLeaf(v) THEN Invalid(loc, "model_type")
    ELSE LET c == IntField(v, "count", loc)
             p == IntField(v, "price", loc)
         IN  [errors |-> c.errors \cup p.errors,
              value  |-> [count |-> c.value, price |-> p.value]]

\* class mechanismFlat: count: int = 0, price: int = 0
mechanismFlat(v, loc) ==
    IF IsLeaf(v) THEN Invalid(loc, "model_type")
    ELSE LET c == IntField(v, "count", loc)
             p == IntField(v, "price", loc)
         IN  [errors |-> c.errors \cup p.errors,
              value  |-> [count |-> c.value, price |-> p.value]]

\* class fabricPct: category: int = 0
fabricPct(v, loc) ==
    IF IsLeaf(v) THEN Invalid(loc, "model_type")
    ELSE LET c == IntField(v, "category", loc)
         IN  [errors |-> c.errors, value |-> [category |-> c.value]]

\* a variant of class extras: the two objects given defaults
extras_defaulted(v, loc) ==
    IF IsLeaf(v) THEN Invalid(loc, "model_type")
    ELSE LET o == IF Has(v, "ottomanFlat")
                  THEN ottomanFlat(v.ottomanFlat, loc \o ".ottomanFlat")
                  ELSE Valid([count |-> 0, price |-> 0])
             m == IF Has(v, "mechanismFlat")
                  THEN mechanismFlat(v.mechanismFlat, loc \o ".mechanismFlat")
                  ELSE Valid([count |-> 0, price |-> 0])
         IN  [errors |-> o.errors \cup m.errors,
              value  |-> [ottomanFlat |-> o.value, mechanismFlat |-> m.value]]

\* class extras: ottomanFlat and mechanismFlat, both required
extras(v, loc) ==
    IF IsLeaf(v) THEN Invalid(loc, "model_type")
    ELSE LET o == IF Has(v, "ottomanFlat")
                  THEN ottomanFlat(v.ottomanFlat, loc \o ".ottomanFlat")
                  ELSE Invalid(loc \o ".ottomanFlat", "missing")
             m == IF Has(v, "mechanismFlat")
                  THEN mechanismFlat(v.mechanismFlat, loc \o ".mechanismFlat")
                  ELSE Invalid(loc \o ".mechanismFlat", "missing")
         IN  [errors |-> o.errors \cup m.errors,
              value  |-> [ottomanFlat |-> o.value, mechanismFlat |-> m.value]]

\* class parameters: extras and fabricPct required, marginPct and
\* pricePerMeter "int = 0"
parameters(v, loc) ==
    IF IsLeaf(v) THEN Invalid(loc, "model_type")
    ELSE LET e == IF Has(v, "extras") THEN extras(v.extras, loc \o ".extras")
                  ELSE Invalid(loc \o ".extras", "missing")
             f == IF Has(v, "fabricPct")
                  THEN fabricPct(v.fabricPct, loc \o ".fabricPct")
                  ELSE Invalid(loc \o ".fabricPct", "missing")
             m == IntField(v, "marginPct", loc)
             p == IntField(v, "pricePerMeter", loc)
         IN  [errors |-> e.errors \cup f.errors \cup m.errors \cup p.errors,
              value  |-> [extras |-> e.value, fabricPct |-> f.value,
                          marginPct |-> m.value, pricePerMeter |-> p.value]]

\* class PriceJsonSchema: parameters, required
PriceJsonSchema(v) ==
    IF IsLeaf(v) THEN Invalid("body", "model_type")
    ELSE IF ~Has(v, "parameters") THEN Invalid("parameters", "missing")
    ELSE LET p == parameters(v.parameters, "parameters")
         IN  [errors |-> p.errors, value |-> [parameters |-> p.value]]

\* dict(model): the fields of a validated parameters model as a mapping that
\* the next model constructor validates again
DictOf(p) ==
    [extras |-> [ottomanFlat |-> [count |-> JInt(p.extras.ottomanFlat.count),
                                  price |-> JInt(p.extras.ottomanFlat.price)],
                 mechanismFlat |-> [count |-> JInt(p.extras.mechanismFlat.count),
                                    price |-> JInt(p.extras.mechanismFlat.price)]],
     fabricPct |-> [category |-> JInt(p.fabricPct.category)],
     marginPct |-> JInt(p.marginPct),
     pricePerMeter |-> JInt(p.pricePerMeter)]

\* a variant of PriceJsonSchemaSum: the sum coerced to an int by truncation
PriceJsonSchemaSumTruncating(params, sum) ==
    LET p == parameters(params, "parameters")
    IN  [errors |-> p.errors,
         value  |-> [parameters |-> p.value, sum |-> FloatToInt(sum)]]

\* class PriceJsonSchemaSum: parameters, and sum: int.  An int field takes a
\* float only when it has no fractional part.
PriceJsonSchemaSum(params, sum) ==
    LET p == parameters(params, "parameters")
        e == IF FloatIsIntegral(sum) THEN {} ELSE {<<"sum", "int_from_float">>}
    IN  [errors |-> p.errors \cup e,
         value  |-> [parameters |-> p.value,
                     sum |-> IF e = {} THEN FloatToInt(sum) ELSE 0]]

\* class PriceJsonSchemaSumWithName: engine: string, parameters, and
\* sum: a decimal number, taken as given
PriceJsonSchemaSumWithName(engine, params, sum) ==
    LET p == parameters(params, "parameters")
    IN  [errors |-> p.errors,
         value  |-> [engine |-> engine, parameters |-> p.value, sum |-> sum]]

(***************************************************************************)
(* The two handlers.  A response is [op, input, status, error, errors,     *)
(* items]: the HTTP status, the exception that ended the handler ("none"   *)
(* when it returned), the validation errors, and the records returned.     *)
(***************************************************************************)
NoResponse ==
    [op |-> "none", input |-> <<>>, status |-> 0, error |-> "none",
     errors |-> {}, items |-> <<>>]

Returned(op, input, items) ==
    [op |-> op, input |-> input, status |-> 200, error |-> "none",
     errors |-> {}, items |-> items]

\* an exception leaves the handler: a pydantic ValidationError and a request
\* that fails validation are answered 422, any other exception 500
Raised(op, input, error, errors) ==
    [op |-> op, input |-> input,
     status |-> IF error \in {"ValidationError", "RequestValidationError"}
                THEN 422 ELSE 500,
     error |-> error, errors |-> errors, items |-> <<>>]

\* a variant of the sum expression: the fabric surcharge on the base alone
ListTotalFabricOnBase(res) ==
    FloatAdd(
        FloatMul(
            FloatMul(FloatOfInt(res.parameters.pricePerMeter),
                     IntTrueDiv(res.parameters.marginPct + 100, 100)),
            IntTrueDiv(res.parameters.fabricPct.category + 100, 100)),
        FloatOfInt(res.parameters.extras.ottomanFlat.count
                     * res.parameters.extras.ottomanFlat.price
                   + res.parameters.extras.mechanismFlat.count
                     * res.parameters.extras.mechanismFlat.price))

\* a variant of the sum expression: the extras inside the margin markup
ListTotalExtrasMarkedUp(res) ==
    FloatMul(
        FloatMul(
            FloatOfInt(res.parameters.pricePerMeter
                       + res.parameters.extras.ottomanFlat.count
                         * res.parameters.extras.ottomanFlat.price
                       + res.parameters.extras.mechanismFlat.count
                         * res.parameters.extras.mechanismFlat.price),
            IntTrueDiv(res.parameters.marginPct + 100, 100)),
        IntTrueDiv(res.parameters.fabricPct.category + 100, 100))

\* a variant of the sum expression: the margin factor added to the price
ListTotalMarginAdded(res) ==
    FloatMul(
        FloatAdd(
            FloatAdd(FloatOfInt(res.parameters.pricePerMeter),
                     IntTrueDiv(res.parameters.marginPct + 100, 100)),
            FloatOfInt(res.parameters.extras.ottomanFlat.count
                         * res.parameters.extras.ottomanFlat.price
                       + res.parameters.extras.mechanismFlat.count
                         * res.parameters.extras.mechanismFlat.price)),
        IntTrueDiv(res.parameters.fabricPct.category + 100, 100))

\* the sum expression of get_all_prices, before rounding
ListTotal(res) ==
    FloatMul(
        FloatAdd(
            FloatMul(FloatOfInt(res.parameters.pricePerMeter),
                     IntTrueDiv(res.parameters.marginPct + 100, 100)),
            FloatOfInt(res.parameters.extras.ottomanFlat.count
                         * res.parameters.extras.ottomanFlat.price
                       + res.parameters.extras.mechanismFlat.count
                         * res.parameters.extras.mechanismFlat.price)),
        IntTrueDiv(res.parameters.fabricPct.category + 100, 100))

\* a variant of the sum: round(sum, 2) left out
ListSumUnrounded(res) == ListTotal(res)

\* the sum get_all_prices passes to the output record
ListSum(res) == FloatRound2(ListTotal(res))

ListRaise(error, errors) == [error |-> error, errors |-> errors, item |-> <<>>]

\* the output record of one stored record, once it is validated
ListAppend(o) ==
    IF o.errors # {} THEN ListRaise("ValidationError", o.errors)
    ELSE [error |-> "none", errors |-> {}, item |-> o.value]

\* the rest of the loop body once res = PriceJsonSchema(...) is evaluated
ListDecoded(value, res) ==
    IF res.errors # {} THEN ListRaise("ValidationError", res.errors)
    ELSE ListAppend(PriceJsonSchemaSumWithName(
                        value.engine, DictOf(res.value.parameters), ListSum(res.value)))

\* a variant of the loop body: the inner ["parameters"] lookup left out
ListRecordNoUnwrap(value) ==
    IF IsLeaf(value.parameters) THEN ListRaise("TypeError", {})
    ELSE ListDecoded(value, PriceJsonSchema([parameters |-> value.parameters]))

\* the body of the loop of get_all_prices for one record: the exception it
\* raises ("none" when it appends) and the record it appends
ListRecord(value) ==
    IF IsLeaf(value.parameters) THEN ListRaise("TypeError", {})
    ELSE IF ~Has(value.parameters, "parameters") THEN ListRaise("KeyError", {})
    ELSE IF IsLeaf(value.parameters.parameters) THEN ListRaise("TypeError", {})
    ELSE ListDecoded(value, PriceJsonSchema([parameters |-> value.parameters.parameters]))

\* the first record that raised, 0 when none did
RECURSIVE FirstRaised(_, _)
FirstRaised(done, i) ==
    IF i > Len(done) THEN 0
    ELSE IF done[i].error # "none" THEN i
    ELSE FirstRaised(done, i + 1)

\* a variant of the outcome: the output built in the opposite order
ListOutcomeReversed(result, done, first) ==
    IF first = 0
    THEN Returned("list", result,
                  [i \in 1..Len(result) |-> done[Len(result) + 1 - i].item])
    ELSE Raised("list", result, done[first].error, done[first].errors)

ListOutcome(result, done, first) ==
    IF first = 0
    THEN Returned("list", result, [i \in 1..Len(result) |-> done[i].item])
    ELSE Raised("list", result, done[first].error, done[first].errors)

ListLoop(result, done) == ListOutcome(result, done, FirstRaised(done, 1))

\* a variant of the loop: every sum computed from the last record read
get_all_prices_stale(result) ==
    ListLoop(result,
             [i \in 1..Len(result) |->
                 ListRecord([engine |-> result[i].engine,
                             parameters |-> result[Len(result)].parameters])])

\* get_all_prices: the records are processed in the order of the query's
\* result; the first exception ends the call and nothing is returned
get_all_prices(result) ==
    ListLoop(result, [i \in 1..Len(result) |-> ListRecord(result[i])])

\* a variant of the sum expression: the margin subtracted from 100
QuoteTotalMarginSlip(param) ==
    FloatMul(
        FloatAdd(
            FloatMul(FloatOfInt(param.pricePerMeter),
                     IntTrueDiv(param.marginPct - 100, 100)),
            FloatOfInt(param.extras.ottomanFlat.count * param.extras.ottomanFlat.price
                       + param.extras.mechanismFlat.count
                         * param.extras.mechanismFlat.price)),
        IntTrueDiv(param.fabricPct.category + 100, 100))

\* the sum expression of sum_price
QuoteTotal(param) ==
    FloatMul(
        FloatAdd(
            FloatMul(FloatOfInt(param.pricePerMeter),
                     IntTrueDiv(param.marginPct + 100, 100)),
            FloatOfInt(param.extras.ottomanFlat.count * param.extras.ottomanFlat.price
                       + param.extras.mechanismFlat.count
                         * param.extras.mechanismFlat.price)),
        IntTrueDiv(param.fabricPct.category + 100, 100))

QuoteOutcome(raw, output) ==
    IF output.errors # {}
    THEN Raised("quote", raw, "ValidationError", output.errors)
    ELSE Returned("quote", raw, <<output.value>>)

\* sum_price on a validated body
sum_price(raw, body) ==
    QuoteOutcome(raw, PriceJsonSchemaSum(DictOf(body.parameters),
                                         QuoteTotal(body.parameters)))

\* the response of post_prices: the request body is validated as a
\* PriceJsonSchema before the handler runs
QuoteValidated(raw, body) ==
    IF body.errors # {}
    THEN Raised("quote", raw, "RequestValidationError", body.errors)
    ELSE sum_price(raw, body.value)

QuoteResponse(raw) == QuoteValidated(raw, PriceJsonSchema(raw))

(***************************************************************************)
(* core/crud/prices.py: the older get_all_prices, which no route calls.    *)
(* It validates the stored document as it is, reads the fields with        *)
(* bracket access, writes the sum into the loaded row's own dict and       *)
(* returns the rows.                                                       *)
(***************************************************************************)
\* a JSON number that is a float
JNum(x) == [num |-> x]

\* res["sum"] = x
WithSum(res, x) ==
    [k \in DOMAIN res \cup {"sum"} |-> IF k = "sum" THEN JNum(x) ELSE res[k]]

\* the sum expression over res["parameters"][...]
CrudTotal(res) ==
    FloatMul(
        FloatAdd(
            FloatMul(FloatOfInt(res.parameters.pricePerMeter.int),
                     IntTrueDiv(res.parameters.marginPct.int + 100, 100)),
            FloatOfInt(res.parameters.extras.ottomanFlat.count.int
                         * res.parameters.extras.ottomanFlat.price.int
                       + res.parameters.extras.mechanismFlat.count.int
                         * res.parameters.extras.mechanismFlat.price.int)),
        IntTrueDiv(res.parameters.fabricPct.category.int + 100, 100))

\* whether every res["parameters"][...] access of the sum expression finds
\* its key, given that the document validates
CrudKeysPresent(res) ==
    /\ Has(res.parameters, "pricePerMeter")
    /\ Has(res.parameters, "marginPct")
    /\ Has(res.parameters.fabricPct, "category")
    /\ Has(res.parameters.extras.ottomanFlat, "count")
    /\ Has(res.parameters.extras.ottomanFlat, "price")
    /\ Has(res.parameters.extras.mechanismFlat, "count")
    /\ Has(res.parameters.extras.mechanismFlat, "price")

\* the loop body on a document that model_validate has judged
CrudValidated(value, res) ==
    IF res.errors # {} THEN ListRaise("ValidationError", res.errors)
    ELSE IF ~CrudKeysPresent(value.parameters) THEN ListRaise("KeyError", {})
    ELSE [error |-> "none", errors |-> {},
          item |-> [engine |-> value.engine,
                    parameters |-> WithSum(value.parameters,
                                           FloatRound2(CrudTotal(value.parameters)))]]

\* the loop body for one row: the exception it raises ("none" when it does
\* not) and the row as the assignment leaves it
CrudRecord(value) == CrudValidated(value, PriceJsonSchema(value.parameters))

\* the loaded rows once the loop has ended: the rows before the one that
\* raised carry their sum
CrudRowsAt(result, done, first) ==
    [i \in 1..Len(result) |->
        IF first = 0 \/ i < first THEN done[i].item ELSE result[i]]

CrudRows(result, done) == CrudRowsAt(result, done, FirstRaised(done, 1))

CrudOutcome(result, done, first) ==
    IF first = 0
    THEN Returned("crud", result, [i \in 1..Len(result) |-> done[i].item])
    ELSE Raised("crud", result, done[first].error, done[first].errors)

CrudLoop(result) == [i \in 1..Len(result) |-> CrudRecord(result[i])]

\* core/crud/prices.py get_all_prices
get_all_prices_crud(result) ==
    CrudOutcome(result, CrudLoop(result), FirstRaised(CrudLoop(result), 1))

(***************************************************************************)
(* A request in flight.  Each request has its own session (session_getter) *)
(* and its own locals; the handlers suspend only at session.execute.       *)
(***************************************************************************)
Idle == [pc |-> "idle", op |-> "none", input |-> <<>>, rows |-> <<>>,
         resp |-> NoResponse]

Opened(op, raw) == [pc |-> "open", op |-> op, input |-> raw, rows |-> <<>>,
                    resp |-> NoResponse]

\* a variant of the handlers: the request body kept in a module-level
\* variable that the latest request received overwrites
HandlerResultShared(fl, r) ==
    IF fl[r].op = "list" THEN get_all_prices(fl[r].rows)
    ELSE IF fl[r].op = "crud" THEN get_all_prices_crud(fl[r].rows)
    ELSE QuoteResponse(
             fl[CHOOSE q \in DOMAIN fl :
                    /\ fl[q].op = "quote"
                    /\ \A o \in DOMAIN fl : fl[o].op = "quote" => o <= q].input)

\* what the handler of request r returns or raises: computed from the rows
\* its own session loaded, or from its own body
HandlerResult(fl, r) ==
    IF fl[r].op = "list" THEN get_all_prices(fl[r].rows)
    ELSE IF fl[r].op = "crud" THEN get_all_prices_crud(fl[r].rows)
    ELSE QuoteResponse(fl[r].input)

\* the rows in the session of request r when its handler has ended
HandlerRows(fl, r) ==
    IF fl[r].op = "crud" THEN CrudRows(fl[r].rows, CrudLoop(fl[r].rows))
    ELSE fl[r].rows

\* a variant of the end of the session: the loaded rows are committed
SessionCommit(persisted, rows) ==
    IF rows = <<>> THEN persisted ELSE rows

\* the end of "async with self.session_factory() as session": the session
\* is closed, nothing is flushed or committed, the loaded rows are dropped
SessionClose(persisted, rows) == persisted

(***************************************************************************)
(* Inputs.                                                                 *)
(***************************************************************************)
\* a leaf document with all seven fields
Leaf(ppm, margin, fabric, oc, op, mc, mp) ==
    [extras |-> [ottomanFlat |-> [count |-> JInt(oc), price |-> JInt(op)],
                 mechanismFlat |-> [count |-> JInt(mc), price |-> JInt(mp)]],
     fabricPct |-> [category |-> JInt(fabric)],
     marginPct |-> JInt(margin),
     pricePerMeter |-> JInt(ppm)]

Wrap(leaf) == [parameters |-> leaf]

Without(obj, key) == [k \in DOMAIN obj \ {key} |-> obj[k]]

\* Scenario A of the specification
LeafA == Leaf(100, 20, 10, 2, 50, 1, 30)

\* a total of 1.155
LeafFrac == Leaf(1, 5, 10, 0, 0, 0, 0)

\* Scenario C: extras.mechanismFlat.price is omitted
LeafNoPrice == [LeafA EXCEPT !.extras.mechanismFlat = [count |-> JInt(1)]]

\* extras.ottomanFlat.count is omitted
LeafNoCount == [LeafA EXCEPT !.extras.ottomanFlat = [price |-> JInt(50)]]

LeafNoExtras == Without(LeafA, "extras")

LeafNoFabric == Without(LeafA, "fabricPct")

LeafNoOttoman == [LeafA EXCEPT !.extras = Without(LeafA.extras, "ottomanFlat")]

LeafNoMechanism == [LeafA EXCEPT !.extras = Without(LeafA.extras, "mechanismFlat")]

LeafBadInt == [LeafA EXCEPT !.marginPct = JStr("abc")]

PriceGrid == {0, 1, 2, 100}

MarginGrid == {0, 5, 20}

FabricGrid == {0, 10, 25}

OttomanGrid == {<<0, 0>>, <<0, 50>>, <<2, 50>>}

MechanismGrid == {<<0, 0>>, <<1, 30>>}

\* the fully populated leaf documents the calculation is explored on
Grid ==
    {Leaf(ppm, m, f, o[1], o[2], x[1], x[2]) :
        ppm \in PriceGrid, m \in MarginGrid, f \in FabricGrid,
        o \in OttomanGrid, x \in MechanismGrid}

\* fully populated leaf documents with a negative field: each field of
\* Scenario A in turn, and two documents whose total is negative
NegGrid ==
    {Leaf(-100, 20, 10, 2, 50, 1, 30), Leaf(100, -20, 10, 2, 50, 1, 30),
     Leaf(100, 20, -10, 2, 50, 1, 30), Leaf(100, 20, 10, -2, 50, 1, 30),
     Leaf(100, 20, 10, 2, 50, 1, -30), Leaf(100, -220, 10, 0, 0, 0, 0),
     Leaf(1, 5, 10, -2, 50, 0, 0)}

\* the pricing-strategy records the store can hold: two well-formed ones, one
\* with a leaf field omitted and one without the inner parameters key
Catalog ==
    {[engine |-> "linear",  parameters |-> Wrap(LeafA)],
     [engine |-> "premium", parameters |-> Wrap(LeafFrac)],
     [engine |-> "partial", parameters |-> Wrap(LeafNoPrice)],
     [engine |-> "legacy",  parameters |-> LeafA]}

\* the request bodies of the quote
Bodies ==
    {Wrap(LeafA), Wrap(LeafFrac), Wrap(LeafNoPrice), Wrap(LeafNoCount), LeafA,
     Wrap(LeafNoExtras), Wrap(LeafNoFabric), Wrap(LeafNoOttoman),
     Wrap(LeafNoMechanism), Wrap(LeafBadInt)}

MaxRecords == 2

\* the stores and the quote bodies the requests in flight run on
ConcStores ==
    {<<[engine |-> "linear", parameters |-> Wrap(LeafA)],
       [engine |-> "premium", parameters |-> Wrap(LeafFrac)]>>,
     <<[engine |-> "premium", parameters |-> Wrap(LeafFrac)],
       [engine |-> "partial", parameters |-> Wrap(LeafNoPrice)]>>}

ConcBodies == {Wrap(LeafA), Wrap(LeafFrac)}

MaxFlight == 2

(***************************************************************************)
(* State: the pricing_pricingstrategy table in the order a select returns  *)
(* it, the response of the last request, a response a client has kept, and *)
(* the requests in flight when the handlers are followed step by step;     *)
(* the catalog tables read by the configurations route; the session store  *)
(* of the admin's session manager, its coroutines, and the login counters. *)
(***************************************************************************)
VARIABLES store, out, memo, flight, catalog, sessions, tasks, limiter

\* the state of the admin's session manager and of the catalog tables,
\* which the price routes never touch
others == <<catalog, sessions, tasks, limiter>>

EmptyCatalog == [products |-> {}, subcategories |-> {}, configurations |-> <<>>]

\* the session store: the storage's dict, the number of uuid4 values drawn,
\* the time, and the sessions terminate_session has answered True for
NoSessions == [data |-> <<>>, uuids |-> 0, clock |-> 0, terminated |-> {}]

\* the current run of consecutive failed logins with one IP address and one
\* username: its length k, the time of its first call, and whether that call
\* found no counter for either
NoRun == [ip |-> "", username |-> "", k |-> 0, since |-> 0, clean |-> FALSE]

\* the rate limiter's storage, the time in minutes, and the current run
NoLimiter == [data |-> <<>>, clock |-> 0, run |-> NoRun]

OthersInit ==
    /\ catalog = EmptyCatalog
    /\ sessions = NoSessions
    /\ tasks = <<>>
    /\ limiter = NoLimiter

vars == <<store, out, memo, flight, catalog, sessions, tasks, limiter>>

Init ==
    /\ store = <<>>
    /\ out = NoResponse
    /\ memo = NoResponse
    /\ flight = <<>>
    /\ OthersInit

\* the table is written outside the two endpoints (the admin views)
StoreInsert(rec) ==
    /\ Len(store) < MaxRecords
    /\ store' = Append(store, rec)
    /\ UNCHANGED <<out, memo, flight>>
    /\ UNCHANGED others

StoreUpdate(i, rec) ==
    /\ store[i] # rec
    /\ store' = [store EXCEPT ![i] = rec]
    /\ UNCHANGED <<out, memo, flight>>
    /\ UNCHANGED others

StoreDelete(i) ==
    /\ store' = [j \in 1..(Len(store) - 1) |-> IF j < i THEN store[j] ELSE store[j + 1]]
    /\ UNCHANGED <<out, memo, flight>>
    /\ UNCHANGED others

\* GET /prices
get_prices ==
    /\ out' = get_all_prices(store)
    /\ UNCHANGED <<store, memo, flight>>
    /\ UNCHANGED others

\* POST /prices/sum
post_prices(raw) ==
    /\ out' = QuoteResponse(raw)
    /\ UNCHANGED <<store, memo, flight>>
    /\ UNCHANGED others

\* the client keeps the response it has just received
Keep ==
    /\ out.op # "none"
    /\ memo' = out
    /\ UNCHANGED <<store, out, flight>>
    /\ UNCHANGED others

Next ==
    \/ \E rec \in Catalog : StoreInsert(rec)
    \/ \E i \in 1..Len(store), rec \in Catalog : StoreUpdate(i, rec)
    \/ \E i \in 1..Len(store) : StoreDelete(i)
    \/ get_prices
    \/ \E raw \in Bodies : post_prices(raw)

Spec == Init /\ [][Next]_vars

\* the calculation on its own: one stored record per grid document, listed
\* alone or beside another record, quoted, and interleaved with another quote
CalcInit ==
    /\ store \in {<<[engine |-> "grid", parameters |-> Wrap(leaf)]>> :
                     leaf \in Grid \cup NegGrid}
    /\ out = NoResponse
    /\ memo = NoResponse
    /\ flight = <<>>
    /\ OthersInit

CalcInsert ==
    /\ Len(store) < MaxRecords
    /\ store' = Append(store, [engine |-> "premium", parameters |-> Wrap(LeafFrac)])
    /\ UNCHANGED <<out, memo, flight>>
    /\ UNCHANGED others

CalcNext ==
    \/ CalcInsert
    \/ get_prices
    \/ \E i \in 1..Len(store) : post_prices(store[i].parameters)
    \/ Keep

CalcSpec == CalcInit /\ [][CalcNext]_vars

\* the handlers step by step, several requests in flight on one event loop
ConcInit ==
    /\ store \in ConcStores
    /\ out = NoResponse
    /\ memo = NoResponse
    /\ flight = [r \in 1..MaxFlight |-> Idle]
    /\ OthersInit

\* a request arrives and session_getter opens its session
Receive(r, op, raw) ==
    /\ flight[r].pc = "idle"
    /\ flight' = [flight EXCEPT ![r] = Opened(op, raw)]
    /\ UNCHANGED <<store, out, memo>>
    /\ UNCHANGED others

\* await session.execute(stmt); executed.scalars().all()
Execute(r) ==
    /\ flight[r].pc = "open"
    /\ flight[r].op \in {"list", "crud"}
    /\ flight' = [flight EXCEPT ![r].pc = "loaded", ![r].rows = store]
    /\ UNCHANGED <<store, out, memo>>
    /\ UNCHANGED others

\* a variant of the handler: a listing answered from the last response sent
\* when that was a listing
Handle_memo(r) ==
    /\ \/ flight[r].pc = "loaded"
       \/ flight[r].pc = "open" /\ flight[r].op = "quote"
    /\ flight' = [flight EXCEPT ![r].pc = "closing",
                                ![r].resp = IF flight[r].op = "list" /\ out.op = "list"
                                            THEN out ELSE HandlerResult(flight, r),
                                ![r].rows = HandlerRows(flight, r)]
    /\ UNCHANGED <<store, out, memo>>
    /\ UNCHANGED others

\* the rest of the handler, which has no await
Handle(r) ==
    /\ \/ flight[r].pc = "loaded"
       \/ flight[r].pc = "open" /\ flight[r].op = "quote"
    /\ flight' = [flight EXCEPT ![r].pc = "closing",
                                ![r].resp = HandlerResult(flight, r),
                                ![r].rows = HandlerRows(flight, r)]
    /\ UNCHANGED <<store, out, memo>>
    /\ UNCHANGED others

\* the session is closed and the response sent
Close(r) ==
    /\ flight[r].pc = "closing"
    /\ store' = SessionClose(store, flight[r].rows)
    /\ out' = flight[r].resp
    /\ flight' = [flight EXCEPT ![r] = Idle]
    /\ UNCHANGED memo
    /\ UNCHANGED others

ConcNext ==
    \E r \in 1..MaxFlight :
        \/ Receive(r, "list", <<>>)
        \/ Receive(r, "crud", <<>>)
        \/ \E raw \in ConcBodies : Receive(r, "quote", raw)
        \/ Execute(r)
        \/ Handle(r)
        \/ Close(r)

ConcSpec == ConcInit /\ [][ConcNext]_vars

\* the two sum expressions applied to each document of the grid
MonoInit ==
    /\ store \in {<<[engine |-> "grid", parameters |-> Wrap(leaf)]>> : leaf \in Grid}
    /\ out = NoResponse
    /\ memo = NoResponse
    /\ flight = <<>>
    /\ OthersInit

MonoNext ==
    \/ get_prices
    \/ post_prices(store[1].parameters)

MonoSpec == MonoInit /\ [][MonoNext]_vars

\* the records the admin views write between two listings
FreshCatalog ==
    {[engine |-> "linear",  parameters |-> Wrap(LeafA)],
     [engine |-> "premium", parameters |-> Wrap(LeafFrac)]}

\* one listing at a time, followed step by step, while the table is written
FreshInit ==
    /\ store = <<>>
    /\ out = NoResponse
    /\ memo = NoResponse
    /\ flight = <<Idle>>
    /\ OthersInit

FreshNext ==
    \/ \E rec \in FreshCatalog : StoreInsert(rec)
    \/ \E i \in 1..Len(store), rec \in FreshCatalog : StoreUpdate(i, rec)
    \/ \E i \in 1..Len(store) : StoreDelete(i)
    \/ Receive(1, "list", <<>>)
    \/ Execute(1)
    \/ Handle(1)
    \/ Close(1)

FreshSpec == FreshInit /\ [][FreshNext]_vars

(***************************************************************************)
(* GET /products/{product_id}/configurations.  The tables catalog_product, *)
(* classification_subcategory and catalog_configuration; a configuration   *)
(* references its product and its subcategory (foreign keys, RESTRICT).    *)
(***************************************************************************)
ProductIds == {1, 2}

SubcategoryIds == {1, 2}

MaxConfigurations == 2

\* raise HTTPException(status_code=404, detail=...)
HTTPException(input, status_code, detail) ==
    [op |-> "configurations", input |-> input, status |-> status_code,
     error |-> "HTTPException", errors |-> {<<"detail", detail>>}, items |-> <<>>]

SelectProduct(cat, product_id) == {p \in cat.products : p = product_id}

SelectSubcategory(cat, subcategory_id) == {c \in cat.subcategories : c = subcategory_id}

RowMatches(row, product_id, subcategory_id) ==
    row.product_id = product_id /\ row.subcategory_id = subcategory_id

RECURSIVE SelectConfiguration(_, _, _)
SelectConfiguration(rows, product_id, subcategory_id) ==
    IF rows = <<>> THEN <<>>
    ELSE IF RowMatches(Head(rows), product_id, subcategory_id)
    THEN <<Head(rows)>> \o SelectConfiguration(Tail(rows), product_id, subcategory_id)
    ELSE SelectConfiguration(Tail(rows), product_id, subcategory_id)

\* a variant of the handler: the subcategory looked up before the product
get_configuration_by_productid_subcategory_first(cat, product_id, subcategory_id) ==
    IF SelectSubcategory(cat, subcategory_id) = {}
    THEN HTTPException(<<product_id, subcategory_id>>, 404, "Subcategory not found")
    ELSE IF SelectProduct(cat, product_id) = {}
    THEN HTTPException(<<product_id, subcategory_id>>, 404, "Product not found")
    ELSE IF SelectConfiguration(cat.configurations, product_id, subcategory_id) = <<>>
    THEN HTTPException(<<product_id, subcategory_id>>, 404, "Configuration not found")
    ELSE Returned("configurations", <<product_id, subcategory_id>>,
                  SelectConfiguration(cat.configurations, product_id, subcategory_id))

get_configuration_by_productid(cat, product_id, subcategory_id) ==
    IF SelectProduct(cat, product_id) = {}
    THEN HTTPException(<<product_id, subcategory_id>>, 404, "Product not found")
    ELSE IF SelectSubcategory(cat, subcategory_id) = {}
    THEN HTTPException(<<product_id, subcategory_id>>, 404, "Subcategory not found")
    ELSE IF SelectConfiguration(cat.configurations, product_id, subcategory_id) = <<>>
    THEN HTTPException(<<product_id, subcategory_id>>, 404, "Configuration not found")
    ELSE Returned("configurations", <<product_id, subcategory_id>>,
                  SelectConfiguration(cat.configurations, product_id, subcategory_id))

\* GET /products/{product_id}/configurations?subcategory_id=...
get_configuration_of_product(product_id, subcategory_id) ==
    /\ out' = get_configuration_by_productid(catalog, product_id, subcategory_id)
    /\ UNCHANGED <<store, memo, flight, catalog, sessions, tasks, limiter>>

ConfigurationIds(cat) == {cat.configurations[i].id : i \in 1..Len(cat.configurations)}

References(cat, column, id) ==
    \E i \in 1..Len(cat.configurations) : cat.configurations[i][column] = id

\* the tables are written outside this application
ProductInsert(id) ==
    /\ id \notin catalog.products
    /\ catalog' = [catalog EXCEPT !.products = @ \cup {id}]
    /\ UNCHANGED <<store, out, memo, flight, sessions, tasks, limiter>>

ProductDelete(id) ==
    /\ id \in catalog.products
    /\ ~References(catalog, "product_id", id)
    /\ catalog' = [catalog EXCEPT !.products = @ \ {id}]
    /\ UNCHANGED <<store, out, memo, flight, sessions, tasks, limiter>>

SubcategoryInsert(id) ==
    /\ id \notin catalog.subcategories
    /\ catalog' = [catalog EXCEPT !.subcategories = @ \cup {id}]
    /\ UNCHANGED <<store, out, memo, flight, sessions, tasks, limiter>>

SubcategoryDelete(id) ==
    /\ id \in catalog.subcategories
    /\ ~References(catalog, "subcategory_id", id)
    /\ catalog' = [catalog EXCEPT !.subcategories = @ \ {id}]
    /\ UNCHANGED <<store, out, memo, flight, sessions, tasks, limiter>>

ConfigurationInsert(id, product_id, subcategory_id) ==
    /\ Len(catalog.configurations) < MaxConfigurations
    /\ id \notin ConfigurationIds(catalog)
    /\ product_id \in catalog.products
    /\ subcategory_id \in catalog.subcategories
    /\ catalog' = [catalog EXCEPT !.configurations =
                      Append(@, [id |-> id, product_id |-> product_id,
                                 subcategory_id |-> subcategory_id])]
    /\ UNCHANGED <<store, out, memo, flight, sessions, tasks, limiter>>

ConfigurationDelete(i) ==
    /\ catalog' = [catalog EXCEPT !.configurations =
                      [j \in 1..(Len(@) - 1) |-> IF j < i THEN @[j] ELSE @[j + 1]]]
    /\ UNCHANGED <<store, out, memo, flight, sessions, tasks, limiter>>

ProdInit ==
    /\ store = <<>>
    /\ out = NoResponse
    /\ memo = NoResponse
    /\ flight = <<>>
    /\ OthersInit

ProdNext ==
    \/ \E id \in ProductIds : ProductInsert(id) \/ ProductDelete(id)
    \/ \E id \in SubcategoryIds : SubcategoryInsert(id) \/ SubcategoryDelete(id)
    \/ \E id \in 1..MaxConfigurations, p \in ProductIds, c \in SubcategoryIds :
          ConfigurationInsert(id, p, c)
    \/ \E i \in 1..Len(catalog.configurations) : ConfigurationDelete(i)
    \/ \E p \in ProductIds, c \in SubcategoryIds : get_configuration_of_product(p, c)

ProdSpec == ProdInit /\ [][ProdNext]_vars

(***************************************************************************)
(* The admin's SessionManager on a session storage.  A uuid4 is a value    *)
(* never drawn before; an Optional is <<>> for None and <<v>> for v.       *)
(***************************************************************************)
UserIds == {1, 2}

max_sessions_per_user == 5

MaxLogins == 6

MaxClock == 6

\* session_timeout_minutes; the clock counts minutes
session_timeout == 30

\* storage.get(session_id, SessionData)
StorageGet(data, session_id) ==
    IF session_id \in DOMAIN data THEN <<data[session_id]>> ELSE <<>>

\* storage.update(session_id, data): the new dict
StorageUpdate(data, session_id, value) ==
    IF session_id \in DOMAIN data THEN [data EXCEPT ![session_id] = value] ELSE data

\* storage.create(data): the new dict, under a key the storage generates
StorageCreate(data, key, value) ==
    [k \in DOMAIN data \cup {key} |-> IF k = key THEN value ELSE data[k]]

\* SessionCreate(user_id=..., last_activity=current_time, is_active=True): the
\* session_id field is filled by its default factory, a uuid4
SessionCreate(user_id, session_id, current_time) ==
    [user_id |-> user_id, session_id |-> session_id, is_active |-> TRUE,
     last_activity |-> current_time]

\* terminate_session run without suspension: the new dict
Terminated(data, session_id) ==
    IF StorageGet(data, session_id) = <<>> THEN data
    ELSE StorageUpdate(data, session_id,
                       [StorageGet(data, session_id)[1] EXCEPT !.is_active = FALSE])

\* the keys of the user's active sessions, in the order of the dict
RECURSIVE ScanFrom(_, _, _, _)
ScanFrom(data, user_id, k, last) ==
    IF k > last THEN <<>>
    ELSE IF k \in DOMAIN data /\ data[k].user_id = user_id /\ data[k].is_active
    THEN <<k>> \o ScanFrom(data, user_id, k + 1, last)
    ELSE ScanFrom(data, user_id, k + 1, last)

\* _get_active_sessions_by_scan
ActiveSessionsByScan(st, user_id) == ScanFrom(st.data, user_id, 1, st.uuids)

\* list.sort(key=lambda s: s.last_activity): a stable sort
RECURSIVE InsertByActivity(_, _, _)
InsertByActivity(data, sorted, k) ==
    IF sorted = <<>> THEN <<k>>
    ELSE IF data[k].last_activity < data[Head(sorted)].last_activity
    THEN <<k>> \o sorted
    ELSE <<Head(sorted)>> \o InsertByActivity(data, Tail(sorted), k)

RECURSIVE SortByActivity(_, _)
SortByActivity(data, keys) ==
    IF keys = <<>> THEN <<>>
    ELSE InsertByActivity(data, SortByActivity(data, SubSeq(keys, 1, Len(keys) - 1)),
                          keys[Len(keys)])

\* for i in range(excess_count): terminate_session(active_sessions[i].session_id),
\* on the sessions as scanned
RECURSIVE TerminateOldest(_, _, _, _)
TerminateOldest(data, scanned, sorted, excess_count) ==
    IF excess_count = 0 \/ sorted = <<>> THEN data
    ELSE TerminateOldest(Terminated(data, scanned[Head(sorted)].session_id),
                         scanned, Tail(sorted), excess_count - 1)

EnforceOver(data, active) ==
    IF Len(active) >= max_sessions_per_user
    THEN TerminateOldest(data, data, SortByActivity(data, active),
                         Len(active) - max_sessions_per_user + 1)
    ELSE data

\* _enforce_session_limit: the new dict
EnforceSessionLimit(st, user_id) == EnforceOver(st.data, ActiveSessionsByScan(st, user_id))

\* create_session: the limit enforced, the session built and stored
create_session(user_id) ==
    /\ sessions.uuids < 2 * MaxLogins
    /\ sessions.clock < MaxClock
    /\ sessions' = [sessions EXCEPT
          !.data = StorageCreate(EnforceSessionLimit(sessions, user_id),
                                 sessions.uuids + 2,
                                 SessionCreate(user_id, sessions.uuids + 1, sessions.clock)),
          !.uuids = @ + 2,
          !.clock = @ + 1]
    /\ out' = Returned("create_session", user_id, <<sessions.uuids + 2>>)
    /\ UNCHANGED <<store, memo, flight, catalog, tasks, limiter>>

\* session_age > self.session_timeout
TimedOut(session_data, current_time) ==
    current_time - session_data.last_activity > session_timeout

\* validate_session run without suspension, on a session that is stored,
\* active and not timed out: the activity recorded
Validated(st, session_id) ==
    StorageUpdate(st.data, session_id,
                  [st.data[session_id] EXCEPT !.last_activity = st.clock])

\* validate_session(session_id, update_activity=True) run without suspension
validate_session(session_id) ==
    /\ sessions.clock < MaxClock
    /\ IF StorageGet(sessions.data, session_id) = <<>>
          \/ ~sessions.data[session_id].is_active
       THEN /\ out' = Returned("validate_session", session_id, <<>>)
            /\ UNCHANGED sessions
       ELSE IF TimedOut(sessions.data[session_id], sessions.clock)
       THEN /\ out' = Returned("validate_session", session_id, <<>>)
            /\ sessions' = [sessions EXCEPT
                                !.data = Terminated(sessions.data, session_id),
                                !.terminated = @ \cup {session_id}]
       ELSE /\ out' = Returned("validate_session", session_id,
                               <<Validated(sessions, session_id)[session_id]>>)
            /\ sessions' = [sessions EXCEPT !.data = Validated(sessions, session_id),
                                            !.clock = @ + 1]
    /\ UNCHANGED <<store, memo, flight, catalog, tasks, limiter>>

\* terminate_session run without suspension (logout)
terminate_session(session_id) ==
    /\ session_id \in DOMAIN sessions.data
    /\ sessions.data[session_id].is_active
    /\ sessions' = [sessions EXCEPT !.data = Terminated(sessions.data, session_id),
                                    !.terminated = @ \cup {session_id}]
    /\ out' = Returned("terminate_session", session_id, <<TRUE>>)
    /\ UNCHANGED <<store, memo, flight, catalog, tasks, limiter>>

LoginInit ==
    /\ store = <<>>
    /\ out = NoResponse
    /\ memo = NoResponse
    /\ flight = <<>>
    /\ OthersInit

LoginNext ==
    \/ \E u \in UserIds : create_session(u)
    \/ \E k \in DOMAIN sessions.data : validate_session(k)
    \/ \E k \in DOMAIN sessions.data : terminate_session(k)

LoginSpec == LoginInit /\ [][LoginNext]_vars

(***************************************************************************)
(* validate_session and terminate_session followed from one storage await  *)
(* to the next, on a storage whose operations suspend the caller.          *)
(***************************************************************************)
MaxTasks == 2

\* the idle periods that pass, each longer than the session timeout
MaxIdle == 1

\* the session ids the callers present: a stored key and an unknown id
PresentedIds == {1, 2}

TaskIdle ==
    [op |-> "none", sid |-> 0, update |-> FALSE, pc |-> "idle",
     local |-> <<>>, ret |-> <<>>, after |-> FALSE]

\* the coroutine returns ret; after: a terminate_session of the same session
\* had returned True before
TaskDone(t, ret) ==
    [t EXCEPT !.pc = "done", !.local = <<>>, !.ret = ret,
              !.after = t.sid \in sessions.terminated]

\* validate_session after session_data = await self.storage.get(...), up to
\* its next await
ValidateGot(t, got) ==
    IF got = <<>> THEN TaskDone(t, <<>>)
    ELSE IF ~got[1].is_active THEN TaskDone(t, <<>>)
    ELSE IF TimedOut(got[1], sessions.clock) THEN [t EXCEPT !.pc = "timeout"]
    ELSE IF t.update
    THEN [t EXCEPT !.pc = "update",
                   !.local = <<[got[1] EXCEPT !.last_activity = sessions.clock]>>]
    ELSE TaskDone(t, got)

\* terminate_session after session_data = await self.storage.get(...), up to
\* its next await
TerminateGot(t, got, done) ==
    IF got = <<>> THEN (IF done = "done" THEN TaskDone(t, <<FALSE>>) ELSE TaskDone(t, <<>>))
    ELSE [t EXCEPT !.pc = IF done = "done" THEN "update" ELSE "timeout_update",
                   !.local = <<[got[1] EXCEPT !.is_active = FALSE]>>]

\* a caller starts one of the two coroutines
Call(i, op, sid, update) ==
    /\ tasks[i].pc = "idle"
    /\ tasks' = [tasks EXCEPT ![i] = [TaskIdle EXCEPT !.op = op, !.sid = sid,
                                                      !.update = update, !.pc = "start"]]
    /\ UNCHANGED <<store, out, memo, flight, catalog, sessions, limiter>>

\* await self.storage.get(session_id, SessionData) completes
Get(i) ==
    /\ tasks[i].pc \in {"start", "timeout"}
    /\ tasks' = [tasks EXCEPT ![i] =
          IF tasks[i].pc = "timeout"
          THEN TerminateGot(tasks[i], StorageGet(sessions.data, tasks[i].sid), "timeout")
          ELSE IF tasks[i].op = "validate_session"
          THEN ValidateGot(tasks[i], StorageGet(sessions.data, tasks[i].sid))
          ELSE TerminateGot(tasks[i], StorageGet(sessions.data, tasks[i].sid), "done")]
    /\ UNCHANGED <<store, out, memo, flight, catalog, sessions, limiter>>

\* await self.storage.update(session_id, session_data) completes and the
\* coroutine returns
Update(i) ==
    /\ tasks[i].pc \in {"update", "timeout_update"}
    /\ sessions' = [sessions EXCEPT
          !.data = StorageUpdate(@, tasks[i].sid, tasks[i].local[1]),
          !.terminated = IF /\ tasks[i].sid \in DOMAIN sessions.data
                            /\ \/ tasks[i].op = "terminate_session"
                               \/ tasks[i].pc = "timeout_update"
                         THEN @ \cup {tasks[i].sid} ELSE @]
    /\ tasks' = [tasks EXCEPT ![i] =
          IF tasks[i].pc = "timeout_update" THEN TaskDone(tasks[i], <<>>)
          ELSE IF tasks[i].op = "validate_session" THEN TaskDone(tasks[i], tasks[i].local)
          ELSE TaskDone(tasks[i], <<tasks[i].sid \in DOMAIN sessions.data>>)]
    /\ UNCHANGED <<store, out, memo, flight, catalog, limiter>>

\* the caller takes the result
Collect(i) ==
    /\ tasks[i].pc = "done"
    /\ tasks' = [tasks EXCEPT ![i] = TaskIdle]
    /\ UNCHANGED <<store, out, memo, flight, catalog, sessions, limiter>>

\* a period longer than the session timeout passes
Idleness ==
    /\ sessions.clock < 1 + MaxIdle * (session_timeout + 1)
    /\ sessions' = [sessions EXCEPT !.clock = @ + session_timeout + 1]
    /\ UNCHANGED <<store, out, memo, flight, catalog, tasks, limiter>>

\* one session, created by a login
RaceInit ==
    /\ store = <<>>
    /\ out = NoResponse
    /\ memo = NoResponse
    /\ flight = <<>>
    /\ catalog = EmptyCatalog
    /\ sessions = [NoSessions EXCEPT
          !.data = StorageCreate(EnforceSessionLimit(NoSessions, 1), 2,
                                 SessionCreate(1, 1, 0)),
          !.uuids = 2,
          !.clock = 1]
    /\ tasks = [i \in 1..MaxTasks |-> TaskIdle]
    /\ limiter = NoLimiter

RaceNext ==
    \/ \E i \in DOMAIN tasks, sid \in PresentedIds, update \in BOOLEAN :
          Call(i, "validate_session", sid, update)
    \/ \E i \in DOMAIN tasks, sid \in PresentedIds :
          Call(i, "terminate_session", sid, FALSE)
    \/ \E i \in DOMAIN tasks : Get(i)
    \/ \E i \in DOMAIN tasks : Update(i)
    \/ \E i \in DOMAIN tasks : Collect(i)
    \/ Idleness

RaceSpec == RaceInit /\ [][RaceNext]_vars

(***************************************************************************)
(* SessionManager.track_login_attempt on a SimpleRateLimiter whose storage *)
(* keeps each key until its expiry.                                        *)
(***************************************************************************)
IpAddresses == {"10.0.0.1", "10.0.0.2"}

Usernames == {"admin"}

login_max_attempts == 5

\* login_window_minutes
login_window == 15

\* the failures counted on one key
MaxAttempts == 6

\* the minutes that pass one by one
MaxMinutes == 1

IpKey(ip_address) == <<"login:ip", ip_address>>

UsernameKey(username) == <<"login:user", username>>

Without1(data, key) == [k \in DOMAIN data \ {key} |-> data[k]]

\* _check_expiry: an expired key is removed when it is looked at
CheckExpiry(data, now, key) ==
    IF key \in DOMAIN data /\ now > data[key].expiry THEN Without1(data, key) ELSE data

\* storage.delete(key)
StorageDelete(data, key) == IF key \in DOMAIN data THEN Without1(data, key) ELSE data

RateLimitData(count, first_attempt, expiry) ==
    [count |-> count, first_attempt |-> first_attempt, expiry |-> expiry]

\* SimpleRateLimiter.increment on the storage as storage.get leaves it
IncrementOn(data, now, key, expiry_seconds) ==
    IF key \notin DOMAIN data
    THEN [data  |-> StorageCreate(data, key, RateLimitData(1, now, now + expiry_seconds)),
          count |-> 1]
    ELSE IF now - data[key].first_attempt > expiry_seconds
    THEN [data  |-> StorageUpdate(data, key, RateLimitData(1, now, now + expiry_seconds)),
          count |-> 1]
    ELSE [data  |-> StorageUpdate(data, key, [data[key] EXCEPT !.count = @ + 1]),
          count |-> data[key].count + 1]

\* SimpleRateLimiter.increment(key, 1, expiry_seconds)
Increment(data, now, key, expiry_seconds) ==
    IncrementOn(CheckExpiry(data, now, key), now, key, expiry_seconds)

Max(a, b) == IF a >= b THEN a ELSE b

\* a variant of the verdict: the attempt that reaches the limit is refused
AttemptVerdictStrict(ip_count, username_count) ==
    <<Max(ip_count, username_count) < login_max_attempts,
      <<Max(0, login_max_attempts - Max(ip_count, username_count))>> >>

\* (is_allowed, remaining) of a failed attempt
AttemptVerdict(ip_count, username_count) ==
    <<Max(ip_count, username_count) <= login_max_attempts,
      <<Max(0, login_max_attempts - Max(ip_count, username_count))>> >>

\* the counters after a failed attempt: the IP's, then the username's
CountedIp(lim, ip_address) ==
    Increment(lim.data, lim.clock, IpKey(ip_address), login_window)

CountedBoth(lim, ip_address, username) ==
    Increment(CountedIp(lim, ip_address).data, lim.clock, UsernameKey(username),
              login_window)

Present(lim, key) == key \in DOMAIN CheckExpiry(lim.data, lim.clock, key)

\* the run a failed attempt belongs to
RunAfter(lim, ip_address, username) ==
    IF /\ lim.run.k > 0
       /\ lim.run.ip = ip_address /\ lim.run.username = username
       /\ lim.clock - lim.run.since <= login_window
    THEN [lim.run EXCEPT !.k = @ + 1]
    ELSE [ip |-> ip_address, username |-> username, k |-> 1, since |-> lim.clock,
          clean |-> /\ ~Present(lim, IpKey(ip_address))
                    /\ ~Present(lim, UsernameKey(username))]

\* track_login_attempt(ip_address, username, success)
track_login_attempt(ip_address, username, success) ==
    /\ IF success
       THEN /\ limiter' = [limiter EXCEPT
                   !.data = StorageDelete(StorageDelete(@, IpKey(ip_address)),
                                          UsernameKey(username)),
                   !.run = NoRun]
            /\ out' = Returned("track_login_attempt", <<ip_address, username, success>>,
                               <<TRUE, <<>> >>)
       ELSE /\ CountedIp(limiter, ip_address).count <= MaxAttempts
            /\ CountedBoth(limiter, ip_address, username).count <= MaxAttempts
            /\ limiter' = [limiter EXCEPT
                   !.data = CountedBoth(limiter, ip_address, username).data,
                   !.run = RunAfter(limiter, ip_address, username)]
            /\ out' = Returned("track_login_attempt", <<ip_address, username, success>>,
                               AttemptVerdict(CountedIp(limiter, ip_address).count,
                                              CountedBoth(limiter, ip_address,
                                                          username).count))
    /\ UNCHANGED <<store, memo, flight, catalog, sessions, tasks>>

\* a minute passes
Minute ==
    /\ limiter.clock < MaxMinutes
    /\ limiter' = [limiter EXCEPT !.clock = @ + 1]
    /\ UNCHANGED <<store, out, memo, flight, catalog, sessions, tasks>>

\* more than a login window passes
WindowPasses ==
    /\ limiter.clock <= MaxMinutes
    /\ limiter' = [limiter EXCEPT !.clock = @ + login_window + 1]
    /\ UNCHANGED <<store, out, memo, flight, catalog, sessions, tasks>>

RateInit ==
    /\ store = <<>>
    /\ out = NoResponse
    /\ memo = NoResponse
    /\ flight = <<>>
    /\ OthersInit

RateNext ==
    \/ \E ip \in IpAddresses, u \in Usernames, success \in BOOLEAN :
          track_login_attempt(ip, u, success)
    \/ Minute
    \/ WindowPasses

RateSpec == RateInit /\ [][RateNext]_vars

(***************************************************************************)
(* Vocabulary of the properties: exact decimal arithmetic on the documents *)
(* as they were submitted or stored, in units of 1/10000.                  *)
(***************************************************************************)
IsInt(obj, key) == Has(obj, key) /\ Has(obj[key], "int")

IsFlat(obj, key) ==
    Has(obj, key) /\ ~IsLeaf(obj[key]) /\ IsInt(obj[key], "count") /\ IsInt(obj[key], "price")

\* a leaf document with all seven fields present, each an integer
FullLeaf(leaf) ==
    /\ ~IsLeaf(leaf)
    /\ IsInt(leaf, "pricePerMeter")
    /\ IsInt(leaf, "marginPct")
    /\ Has(leaf, "fabricPct") /\ ~IsLeaf(leaf.fabricPct) /\ IsInt(leaf.fabricPct, "category")
    /\ Has(leaf, "extras") /\ ~IsLeaf(leaf.extras)
    /\ IsFlat(leaf.extras, "ottomanFlat")
    /\ IsFlat(leaf.extras, "mechanismFlat")

\* a document {parameters: L} with L a full leaf document
FullDoc(doc) == ~IsLeaf(doc) /\ Has(doc, "parameters") /\ FullLeaf(doc.parameters)

ExtrasCost(leaf) ==
    leaf.extras.ottomanFlat.count.int * leaf.extras.ottomanFlat.price.int
    + leaf.extras.mechanismFlat.count.int * leaf.extras.mechanismFlat.price.int

\* 10000 * ((pricePerMeter * (1 + marginPct/100) + extras) * (1 + category/100))
Total4(leaf) ==
    (leaf.pricePerMeter.int * (leaf.marginPct.int + 100) + 100 * ExtrasCost(leaf))
    * (leaf.fabricPct.category.int + 100)

\* 10000 * (pricePerMeter * (1 + marginPct/100) * (1 + category/100) + extras)
BaseOnly4(leaf) ==
    leaf.pricePerMeter.int * (leaf.marginPct.int + 100) * (leaf.fabricPct.category.int + 100)
    + 10000 * ExtrasCost(leaf)

\* the number of cents nearest to a float
CentsOf(x) ==
    IF x.man = <<>> THEN 0
    ELSE IF x.neg THEN -BigVal(BigCentsOf(x)) ELSE BigVal(BigCentsOf(x))

\* the float is the one written with at most two decimal digits, c / 100
IsCents(x, c) == x.man = IntTrueDiv(c, 100).man /\ x.exp = IntTrueDiv(c, 100).exp
                 /\ (x.man # <<>> => x.neg = (c < 0))

TwoDecimals(x) == IsCents(x, CentsOf(x))

\* the cents c are a rounding of the exact total t4 to two decimal places
RoundedTo2(c, t4) == Abs(100 * c - t4) <= 50

ListedOk(r) == r.op = "list" /\ r.status = 200

QuotedOk(r) == r.op = "quote" /\ r.status = 200

\* the listing response r was computed from fully populated stored documents
ListedFull(r) == r.op = "list" /\ \A i \in 1..Len(r.input) : FullDoc(r.input[i].parameters)

QuotedFull(r) == r.op = "quote" /\ FullDoc(r.input)

(***************************************************************************)
(* Properties.                                                             *)
(***************************************************************************)

\* C1: the sum the listing attaches to a record whose stored leaf document is
\* fully populated is ((pricePerMeter * (1 + marginPct/100)) + extras) *
\* (1 + category/100) rounded to 2 decimal places; Scenario A gives 275.00.
C1_ListingSumFollowsFormula ==
    ListedFull(out) =>
        /\ out.status = 200
        /\ Len(out.items) = Len(out.input)
        /\ \A i \in 1..Len(out.input) :
              /\ TwoDecimals(out.items[i].sum)
              /\ RoundedTo2(CentsOf(out.items[i].sum),
                            Total4(out.input[i].parameters.parameters))
              /\ (out.input[i].parameters.parameters = LeafA
                    => IsCents(out.items[i].sum, 27500))

C1_Witness ==
    /\ ListedOk(out)
    /\ Len(out.input) = 1
    /\ out.input[1].parameters = Wrap(LeafA)
    /\ IsCents(out.items[1].sum, 27500)

\* C2: the quote of a fully populated document returns the formula's total
\* rounded to 2 decimal places, whether or not the total is a whole number.
C2_QuoteSumFollowsFormula ==
    QuotedFull(out) =>
        /\ out.status = 200
        /\ RoundedTo2(100 * out.items[1].sum, Total4(out.input.parameters))

\* the request has every object of the schema and omits at least one leaf field
OmitsLeaf(doc) ==
    /\ ~IsLeaf(doc) /\ Has(doc, "parameters") /\ ~IsLeaf(doc.parameters)
    /\ Has(doc.parameters, "fabricPct") /\ ~IsLeaf(doc.parameters.fabricPct)
    /\ Has(doc.parameters, "extras") /\ ~IsLeaf(doc.parameters.extras)
    /\ Has(doc.parameters.extras, "ottomanFlat")
    /\ ~IsLeaf(doc.parameters.extras.ottomanFlat)
    /\ Has(doc.parameters.extras, "mechanismFlat")
    /\ ~IsLeaf(doc.parameters.extras.mechanismFlat)
    /\ \/ ~Has(doc.parameters, "pricePerMeter")
       \/ ~Has(doc.parameters, "marginPct")
       \/ ~Has(doc.parameters.fabricPct, "category")
       \/ ~Has(doc.parameters.extras.ottomanFlat, "count")
       \/ ~Has(doc.parameters.extras.ottomanFlat, "price")
       \/ ~Has(doc.parameters.extras.mechanismFlat, "count")
       \/ ~Has(doc.parameters.extras.mechanismFlat, "price")

\* C3: a quote request that omits a leaf field is rejected with a validation
\* error and no sum is returned; the field is never defaulted to 0.
C3_MissingLeafRejected ==
    (out.op = "quote" /\ OmitsLeaf(out.input)) =>
        (out.status = 422 /\ out.items = <<>>)

\* the leaf document the i-th returned record of a response was computed from
SourceLeaf(r, i) ==
    IF r.op = "list" THEN r.input[i].parameters.parameters ELSE r.input.parameters

SourceFull(r, i) ==
    IF r.op = "list" THEN FullDoc(r.input[i].parameters) ELSE FullDoc(r.input)

\* 10000 * the decimal value of the i-th returned sum
SumValue4(r, i) ==
    IF r.op = "list" THEN 100 * CentsOf(r.items[i].sum) ELSE 10000 * r.items[i].sum

\* C4 as stated: the returned total differs from base * (1 + margin/100) *
\* (1 + fabric/100) + extras unless the extras cost is zero.
C4_DiffersUnlessNoExtras ==
    out.status = 200 =>
        \A i \in 1..Len(out.items) :
            (SourceFull(out, i) /\ ExtrasCost(SourceLeaf(out, i)) # 0)
                => SumValue4(out, i) # BaseOnly4(SourceLeaf(out, i))

\* C4, amended: the returned total differs from base * (1 + margin/100) *
\* (1 + fabric/100) + extras unless the extras cost is zero or
\* fabricPct.category is zero.
C4_DiffersUnlessNoExtrasOrNoFabric ==
    out.status = 200 =>
        \A i \in 1..Len(out.items) :
            (/\ SourceFull(out, i)
             /\ ExtrasCost(SourceLeaf(out, i)) # 0
             /\ SourceLeaf(out, i).fabricPct.category.int # 0)
                => SumValue4(out, i) # BaseOnly4(SourceLeaf(out, i))

C4_Witness ==
    /\ QuotedOk(out)
    /\ out.input = Wrap(LeafA)
    /\ ExtrasCost(LeafA) = 130
    /\ SumValue4(out, 1) = 2750000
    /\ BaseOnly4(LeafA) = 2620000

\* C5: every sum the listing or the quote returns has at most 2 decimal
\* places.
C5_SumsHaveTwoDecimals ==
    out.status = 200 =>
        \A i \in 1..Len(out.items) :
            IF out.op = "list" THEN TwoDecimals(out.items[i].sum)
            ELSE out.items[i].sum \in Int

C5_Witness ==
    /\ ListedOk(out)
    /\ Total4(out.input[1].parameters.parameters) = 11550
    /\ IsCents(out.items[1].sum, 116)

\* the sums a response returned, each with the document it was computed from
Sums(r) ==
    IF r.status # 200 THEN {}
    ELSE {[doc   |-> IF r.op = "list" THEN r.input[i].parameters ELSE r.input,
           value |-> SumValue4(r, i)] : i \in 1..Len(r.items)}

ListingMatches(result, items) ==
    /\ Len(items) = Len(result)
    /\ \A i \in 1..Len(result) :
          /\ items[i].engine = result[i].engine
          /\ FullDoc(result[i].parameters) =>
                /\ TwoDecimals(items[i].sum)
                /\ RoundedTo2(CentsOf(items[i].sum),
                              Total4(result[i].parameters.parameters))

\* C7: a listing that returns has exactly one output record per stored record,
\* in the store's order, with the stored engine and the sum of that record's
\* own parameters; an empty store yields an empty list.
C7_ListingOneRecordEach ==
    [][(out' # out /\ out'.op = "list")
          => /\ out'.status = 200 => ListingMatches(store, out'.items)
             /\ store = <<>> => (out'.status = 200 /\ out'.items = <<>>)]_vars

C7_Witness ==
    /\ ListedOk(out)
    /\ out.input = store
    /\ Len(out.items) = 2
    /\ out.items[1].engine = "premium" /\ IsCents(out.items[1].sum, 116)
    /\ out.items[2].engine = "linear" /\ IsCents(out.items[2].sum, 27500)

\* the validated parameters equal the leaf document, field for field
SameLeaf(p, leaf) ==
    /\ DOMAIN p = {"extras", "fabricPct", "marginPct", "pricePerMeter"}
    /\ p.pricePerMeter = leaf.pricePerMeter.int
    /\ p.marginPct = leaf.marginPct.int
    /\ p.fabricPct = [category |-> leaf.fabricPct.category.int]
    /\ p.extras.ottomanFlat = [count |-> leaf.extras.ottomanFlat.count.int,
                               price |-> leaf.extras.ottomanFlat.price.int]
    /\ p.extras.mechanismFlat = [count |-> leaf.extras.mechanismFlat.count.int,
                                 price |-> leaf.extras.mechanismFlat.price.int]

\* C8: for a stored document {parameters: L} with L fully populated, the
\* parameters of the listing's output record equal L itself, one level
\* unwrapped.
C8_ListingUnwrapsOneLevel ==
    ListedFull(out) =>
        /\ out.status = 200
        /\ \A i \in 1..Len(out.input) :
              SameLeaf(out.items[i].parameters, out.input[i].parameters.parameters)

C8_Witness ==
    /\ ListedOk(out)
    /\ Len(out.input) = 1
    /\ out.input[1].parameters = Wrap(LeafFrac)
    /\ out.items[1].parameters.pricePerMeter = 1
    /\ out.items[1].parameters.marginPct = 5
    /\ out.items[1].parameters.fabricPct.category = 10

\* the stored document does not decode: the inner parameters key is absent or
\* the schema rejects the leaf document
Undecodable(rec) ==
    \/ IsLeaf(rec.parameters)
    \/ ~Has(rec.parameters, "parameters")
    \/ PriceJsonSchema(rec.parameters).errors # {}

\* C9: a stored record that fails to decode does not block the others: the
\* listing still yields the output record of every well-formed record.
C9_BadRecordDoesNotBlock ==
    (out.op = "list" /\ \E i \in 1..Len(out.input) : Undecodable(out.input[i])) =>
        \A j \in 1..Len(out.input) :
            ~Undecodable(out.input[j]) =>
                \E k \in 1..Len(out.items) : out.items[k].engine = out.input[j].engine

\* C10: when a stored document is not a fully populated {parameters: L}, the
\* listing does not return a successful result; it reports an error that
\* names the offending record's engine.
C10_DecodeFailureSurfaced ==
    out.op = "list" =>
        \A i \in 1..Len(out.input) :
            ~FullDoc(out.input[i].parameters) =>
                /\ out.status # 200
                /\ \E e \in out.errors : e[1] = out.input[i].engine

\* C11: every fully populated quote request gets a result whose parameters
\* equal the request document field for field: the input is echoed unchanged
\* beside the sum.
C11_QuoteEchoesParameters ==
    QuotedFull(out) =>
        /\ out.status = 200
        /\ Len(out.items) = 1
        /\ DOMAIN out.items[1] = {"parameters", "sum"}
        /\ SameLeaf(out.items[1].parameters, out.input.parameters)

\* C12: no step of a quote or of a listing changes the persisted store: the
\* same records exist, each with its engine and its stored parameters
\* document exactly as before, and no stored document gains a sum key.
C12_StoreUnchanged ==
    [][/\ store' = store
       /\ \A i \in 1..Len(store') : ~Has(store'[i].parameters, "sum")]_vars

C12_Witness ==
    /\ out.op = "crud" /\ out.status = 200
    /\ Has(out.items[1].parameters, "sum")
    /\ store = out.input
    /\ ~Has(store[1].parameters, "sum")
    /\ \E r \in 1..MaxFlight : flight[r].pc = "closing" /\ flight[r].op = "list"

\* the paths of the objects of the schema that the document lacks
MissingObjects(doc) ==
    IF ~Has(doc, "parameters") THEN {"parameters"}
    ELSE (IF Has(doc.parameters, "fabricPct") THEN {} ELSE {"parameters.fabricPct"})
         \cup (IF ~Has(doc.parameters, "extras") THEN {"parameters.extras"}
               ELSE (IF Has(doc.parameters.extras, "ottomanFlat") THEN {}
                     ELSE {"parameters.extras.ottomanFlat"})
                    \cup (IF Has(doc.parameters.extras, "mechanismFlat") THEN {}
                          ELSE {"parameters.extras.mechanismFlat"}))

\* C13: a quote request without the parameters wrapper, or whose parameters
\* lacks extras or fabricPct, or whose extras lacks ottomanFlat or
\* mechanismFlat, is rejected with a validation error that names the missing
\* object, before the handler computes a total.
C13_MissingObjectRejected ==
    (out.op = "quote" /\ MissingObjects(out.input) # {}) =>
        /\ out.status = 422
        /\ out.error = "RequestValidationError"
        /\ out.items = <<>>
        /\ \A path \in MissingObjects(out.input) : <<path, "missing">> \in out.errors

C13_Witness ==
    /\ out.op = "quote"
    /\ out.input = Wrap(LeafNoMechanism)
    /\ out.status = 422
    /\ out.errors = {<<"parameters.extras.mechanismFlat", "missing">>}

\* the seven integers of a fully populated leaf document
Fields(leaf) ==
    {leaf.pricePerMeter.int, leaf.marginPct.int, leaf.fabricPct.category.int,
     leaf.extras.ottomanFlat.count.int, leaf.extras.ottomanFlat.price.int,
     leaf.extras.mechanismFlat.count.int, leaf.extras.mechanismFlat.price.int}

\* the number of documents a response was computed from
Sources(r) == IF r.op = "list" THEN Len(r.input) ELSE 1

\* the validated model of a fully populated leaf document
Decoded(leaf) == PriceJsonSchema(Wrap(leaf)).value

\* the float is not negative (and no negative zero)
FloatNonNegative(x) == ~x.neg

\* the unrounded sum the path of response r computes for the validated model
PathTotal(r, res) ==
    IF r.op = "list" THEN ListTotal(res) ELSE QuoteTotal(res.parameters)

\* C14: when the seven integer fields of the document are all >= 0, the sum
\* computed for it, by the quote and by the listing, is >= 0, and so is the
\* sum returned.
C14_NonNegativeSum ==
    out.op \in {"quote", "list"} =>
        \A i \in 1..Sources(out) :
            (SourceFull(out, i) /\ \A n \in Fields(SourceLeaf(out, i)) : n >= 0)
                => /\ FloatNonNegative(PathTotal(out, Decoded(SourceLeaf(out, i))))
                   /\ out.status = 200 => SumValue4(out, i) >= 0
                   /\ (out.status = 200 /\ out.op = "list")
                         => FloatNonNegative(out.items[i].sum)

C14_Witness ==
    /\ QuotedOk(out)
    /\ out.input = Wrap(Leaf(2, 0, 25, 2, 50, 1, 30))
    /\ out.items[1].sum = 165

\* the number of 1/10000 nearest to a float: the decimal a float total stands
\* for, the exact totals being multiples of 1/10000
Units4Of(x) ==
    IF x.man = <<>> THEN 0
    ELSE IF x.exp >= 0
    THEN (IF x.neg THEN -1 ELSE 1) * BigVal(BigShl(BigMulSmall(x.man, 10000), x.exp))
    ELSE (IF x.neg THEN -1 ELSE 1)
         * BigVal(BigShrHalfEven(BigMulSmall(x.man, 10000), -x.exp))

\* the validated model with both counts set to 0
ZeroCounts(res) ==
    [res EXCEPT !.parameters.extras.ottomanFlat.count = 0,
                !.parameters.extras.mechanismFlat.count = 0]

\* Scenario E: Scenario A with ottomanFlat.count = 0
LeafE == Leaf(100, 20, 10, 0, 50, 1, 30)

\* 10000 * (the unrounded total of res minus that of res with both counts 0),
\* on the sum expression of the path of response r
ExtrasShare4(r, res) ==
    Units4Of(PathTotal(r, res)) - Units4Of(PathTotal(r, ZeroCounts(res)))

\* C15: flat extras are charged at count * price, outside the margin and
\* inside the fabric surcharge: the unrounded total of a document minus the
\* unrounded total of the same document with both counts 0 is
\* (ottomanFlat.count * ottomanFlat.price + mechanismFlat.count *
\* mechanismFlat.price) * (1 + category/100), whatever pricePerMeter and
\* marginPct are; the returned sum is that unrounded total (rounded, in the
\* listing); Scenario A with ottomanFlat.count = 0 gives 165.00, which is
\* 110.00 less than 275.00.
C15_ExtrasChargedFlat ==
    out.op \in {"quote", "list"} =>
        \A i \in 1..Sources(out) :
            SourceFull(out, i) =>
                /\ ExtrasShare4(out, Decoded(SourceLeaf(out, i)))
                      = 100 * ExtrasCost(SourceLeaf(out, i))
                        * (SourceLeaf(out, i).fabricPct.category.int + 100)
                /\ (out.status = 200 /\ out.op = "list")
                      => RoundedTo2(CentsOf(out.items[i].sum),
                                    Units4Of(PathTotal(out, Decoded(SourceLeaf(out, i)))))
                /\ (out.status = 200 /\ out.op = "quote")
                      => 10000 * out.items[i].sum
                           = Units4Of(PathTotal(out, Decoded(SourceLeaf(out, i))))
                /\ SourceLeaf(out, i) = LeafE
                      => out.status = 200 /\ SumValue4(out, i) = 2750000 - 1100000

C15_Witness ==
    /\ ListedOk(out)
    /\ out.input[1].parameters = Wrap(LeafE)
    /\ IsCents(out.items[1].sum, 16500)
    /\ ExtrasShare4(out, Decoded(LeafE)) = 330000
    /\ ExtrasShare4(out, Decoded(LeafA)) = 1430000

\* both counts of the leaf document are 0
NoCounts(leaf) ==
    /\ leaf.extras.ottomanFlat.count.int = 0
    /\ leaf.extras.mechanismFlat.count.int = 0

\* 10000 * pricePerMeter * (1 + marginPct/100) * (1 + category/100)
Base4(leaf) ==
    leaf.pricePerMeter.int * (leaf.marginPct.int + 100)
    * (leaf.fabricPct.category.int + 100)

\* C16: when both counts are 0 the extras contribute nothing: the quote (and
\* the listing) returns pricePerMeter * (1 + marginPct/100) *
\* (1 + category/100) rounded to 2 decimals, whatever the two prices are.
C16_ZeroCountsNoExtras ==
    (out.op \in {"quote", "list"}
     /\ \A i \in 1..(IF out.op = "list" THEN Len(out.input) ELSE 1) :
           SourceFull(out, i) /\ NoCounts(SourceLeaf(out, i))) =>
        /\ out.status = 200
        /\ \A i \in 1..Len(out.items) :
              RoundedTo2(IF out.op = "list" THEN CentsOf(out.items[i].sum)
                         ELSE 100 * out.items[i].sum,
                         Base4(SourceLeaf(out, i)))

\* C17: when every field of the parameters document is 0, the quote and the
\* listing both return sum == 0.00.
C17_AllZeroGivesZero ==
    out.op \in {"quote", "list"} =>
        /\ (out.op = "quote" /\ out.input = Wrap(Leaf(0, 0, 0, 0, 0, 0, 0)))
              => out.status = 200 /\ out.items[1].sum = 0
        /\ out.op = "list" =>
              \A i \in 1..Len(out.input) :
                  out.input[i].parameters = Wrap(Leaf(0, 0, 0, 0, 0, 0, 0))
                      => /\ out.status = 200
                         /\ out.items[i].sum = DblZero(FALSE)

C17_Witness ==
    /\ ListedOk(memo)
    /\ memo.input[1].parameters = Wrap(Leaf(0, 0, 0, 0, 0, 0, 0))
    /\ memo.items[1].sum = DblZero(FALSE)
    /\ QuotedOk(out)
    /\ out.input = Wrap(Leaf(0, 0, 0, 0, 0, 0, 0))
    /\ out.items[1].sum = 0

\* C18: on a structurally valid (fully populated, integer-typed) document the
\* computation has no failure path: the quote and the listing always complete
\* with a result and never end in an error.
C18_NoFailureOnValidInput ==
    /\ QuotedFull(out) => out.status = 200 /\ out.error = "none"
    /\ ListedFull(out) => out.status = 200 /\ out.error = "none"

\* the response the request gets when it runs alone on the store
Alone(op, raw) ==
    IF op = "list" THEN get_all_prices(store)
    ELSE IF op = "crud" THEN get_all_prices_crud(store)
    ELSE QuoteResponse(raw)

\* C19: with several quote and listing requests in flight, in every
\* interleaving of their steps each request's result (status, sums and echoed
\* parameters) is the result the same request produces when it runs alone;
\* none depends on another request in flight.
C19_NoInterference ==
    /\ \A r \in DOMAIN flight :
          flight[r].pc = "closing"
              => flight[r].resp = Alone(flight[r].op, flight[r].input)
    /\ out.op = "list" => out = get_all_prices(store)
    /\ out.op = "quote" => out = QuoteResponse(out.input)

C19_Witness ==
    /\ flight[1].pc = "closing" /\ flight[1].op = "quote"
    /\ flight[1].input = Wrap(LeafA)
    /\ flight[1].resp.status = 200 /\ flight[1].resp.items[1].sum = 275
    /\ flight[2].pc = "closing" /\ flight[2].op = "list"
    /\ flight[2].resp.status = 200
    /\ IsCents(flight[2].resp.items[1].sum, 27500)
    /\ IsCents(flight[2].resp.items[2].sum, 116)
    /\ out.op = "quote" /\ out.input = Wrap(LeafFrac) /\ out.status = 422

\* C20: a fully populated document with a negative count, price, marginPct,
\* pricePerMeter or fabricPct.category passes validation on both paths and
\* the formula is applied to it as it is: the listing returns its total
\* rounded, the quote its total when it returns one, negative totals included.
C20_NegativesAccepted ==
    out.op \in {"quote", "list"} =>
        \A i \in 1..Sources(out) :
            (SourceFull(out, i) /\ \E n \in Fields(SourceLeaf(out, i)) : n < 0) =>
                /\ out.error # "RequestValidationError"
                /\ out.errors \subseteq {<<"sum", "int_from_float">>}
                /\ Units4Of(PathTotal(out, Decoded(SourceLeaf(out, i))))
                      = Total4(SourceLeaf(out, i))
                /\ out.op = "list" =>
                      /\ out.status = 200
                      /\ RoundedTo2(CentsOf(out.items[i].sum), Total4(SourceLeaf(out, i)))
                /\ (out.op = "quote" /\ out.status = 200) =>
                      10000 * out.items[i].sum = Total4(SourceLeaf(out, i))

C20_Witness ==
    /\ ListedOk(memo)
    /\ memo.input[1].parameters = Wrap(Leaf(100, -220, 10, 0, 0, 0, 0))
    /\ memo.items[1].sum.neg
    /\ IsCents(memo.items[1].sum, -13200)
    /\ QuotedOk(out)
    /\ out.input = Wrap(Leaf(100, -220, 10, 0, 0, 0, 0))
    /\ out.items[1].sum = -132
    /\ out.items[1].parameters.marginPct = -220

\* C21: no caching or memoization: every listing call reads the store during
\* the call and computes its sums from the rows it read, so a listing after
\* a record was changed, added or removed reflects the new contents and
\* never a sum computed by an earlier call.
C21_ListingReadsStore ==
    [][\A r \in DOMAIN flight :
          (flight[r].op = "list" /\ r \in DOMAIN flight') =>
              /\ (flight[r].pc = "open" /\ flight'[r].pc = "loaded")
                    => flight'[r].rows = store
              /\ (flight[r].pc = "loaded" /\ flight'[r].pc = "closing")
                    => /\ flight'[r].resp = get_all_prices(flight[r].rows)
                       /\ flight'[r].resp.status = 200
                       /\ ListingMatches(flight[r].rows, flight'[r].resp.items)
              /\ (flight[r].pc = "closing" /\ flight'[r].pc = "idle")
                    => out' = flight[r].resp]_vars

C21_Witness ==
    /\ ListedOk(out)
    /\ Len(out.items) = 1
    /\ out.items[1].engine = "linear" /\ IsCents(out.items[1].sum, 27500)
    /\ flight[1].pc = "closing"
    /\ flight[1].rows = store
    /\ Len(flight[1].resp.items) = 2
    /\ flight[1].resp.items[1].engine = "premium"
    /\ IsCents(flight[1].resp.items[1].sum, 116)

\* the number of cents nearest to the exact total t4, a tie going to the
\* upper cent
HalfUpCents(t4) == (t4 + 50) \div 100

\* the leaf document whose exact total, 2.625, lies halfway between two cents
LeafTie == Leaf(2, 5, 25, 0, 0, 0, 0)

\* C22: the sum the listing reports is the exact total rounded to the
\* nearest cent with half-up rounding: a total exactly halfway between two
\* cents goes to the upper cent.
C22_HalfUpRounding ==
    ListedFull(out) =>
        /\ out.status = 200
        /\ \A i \in 1..Len(out.items) :
              /\ CentsOf(out.items[i].sum)
                    = HalfUpCents(Total4(out.input[i].parameters.parameters))
              /\ (out.input[i].parameters.parameters = LeafTie
                    => IsCents(out.items[i].sum, 263))

\* C23: the two paths agree: for every fully populated leaf document p, the
\* sum the listing reports for a stored record {parameters: p} equals the
\* sum the quote returns for the request {parameters: p}.
C23_PathsAgree ==
    (ListedFull(memo) /\ QuotedFull(out)) =>
        \A i \in 1..Len(memo.input) :
            memo.input[i].parameters = out.input
                => /\ memo.status = 200
                   /\ out.status = 200
                   /\ SumValue4(memo, i) = SumValue4(out, 1)

\* the exact total t4 (in 1/10000) is a whole number
Whole4(t4) == t4 % 10000 = 0

\* C24: sum_price passes the unrounded total to an int-typed sum field: it
\* returns a result only when the total is a whole number, and then sum is
\* that total exactly; for a valid input whose total has a fractional part,
\* building the result fails with a validation error, and no truncated or
\* rounded value is returned.
C24_QuoteOnlyWholeTotals ==
    QuotedFull(out) =>
        /\ out.status = 200
              => /\ Whole4(Total4(out.input.parameters))
                 /\ FloatIsIntegral(QuoteTotal(Decoded(out.input.parameters).parameters))
                 /\ 10000 * out.items[1].sum = Total4(out.input.parameters)
        /\ (\/ ~Whole4(Total4(out.input.parameters))
            \/ ~FloatIsIntegral(QuoteTotal(Decoded(out.input.parameters).parameters)))
              => /\ out.status = 422
                 /\ out.error = "ValidationError"
                 /\ out.errors = {<<"sum", "int_from_float">>}
                 /\ out.items = <<>>

C24_Witness ==
    /\ QuotedFull(memo) /\ memo.status = 200 /\ memo.items[1].sum = 3
    /\ memo.input.parameters = Leaf(2, 20, 25, 0, 0, 0, 0)
    /\ QuotedFull(out) /\ out.input.parameters = LeafFrac
    /\ out.status = 422 /\ out.error = "ValidationError"

FloatNeg(x) == [x EXCEPT !.neg = ~x.neg]

FloatDiffNonNegative(d) == d.man = <<>> \/ ~d.neg

\* x <= y on floats
FloatLe(x, y) == FloatDiffNonNegative(FloatAdd(y, FloatNeg(x)))

Bump(k, j, d) == IF k = j THEN d ELSE 0

\* the leaf document with its k-th field raised by d, the other six fixed
RaiseField(leaf, k, d) ==
    Leaf(leaf.pricePerMeter.int + Bump(k, 1, d),
         leaf.marginPct.int + Bump(k, 2, d),
         leaf.fabricPct.category.int + Bump(k, 3, d),
         leaf.extras.ottomanFlat.count.int + Bump(k, 4, d),
         leaf.extras.ottomanFlat.price.int + Bump(k, 5, d),
         leaf.extras.mechanismFlat.count.int + Bump(k, 6, d),
         leaf.extras.mechanismFlat.price.int + Bump(k, 7, d))

FieldCount == 7

\* the amounts a field is raised by
RaiseSteps == {1, 33}

\* the sum t computed for a raised document is not below the sum base of the
\* document itself, nor its rounding below the i-th sum the listing r reports
NotLowered(r, i, base, t) ==
    /\ FloatLe(base, t)
    /\ (r.op = "list" /\ r.status = 200) => FloatLe(r.items[i].sum, FloatRound2(t))

MonotoneAt(r, i, leaf, base) ==
    \A k \in 1..FieldCount, d \in RaiseSteps :
        NotLowered(r, i, base, PathTotal(r, Decoded(RaiseField(leaf, k, d))))

\* C25: with all seven fields >= 0, the computed sum is monotonically
\* non-decreasing in each field: raising any single field while the other
\* six stay fixed never lowers the sum computed by the path, nor the rounded
\* sum the listing reports.
C25_Monotone ==
    out.op \in {"quote", "list"} =>
        \A i \in 1..Sources(out) :
            (SourceFull(out, i) /\ \A n \in Fields(SourceLeaf(out, i)) : n >= 0)
                => MonotoneAt(out, i, SourceLeaf(out, i),
                              PathTotal(out, Decoded(SourceLeaf(out, i))))

C25_Witness ==
    /\ ListedOk(out)
    /\ out.input[1].parameters.parameters = LeafA
    /\ IsCents(out.items[1].sum, 27500)
    /\ \A k \in 1..FieldCount :
          /\ IsCents(ListSum(Decoded(RaiseField(LeafA, k, 1))),
                     CentsOf(ListSum(Decoded(RaiseField(LeafA, k, 1)))))
          /\ CentsOf(ListSum(Decoded(RaiseField(LeafA, k, 1)))) > 27500

\* the response r is the 404 with this detail
NotFound(r, detail) ==
    /\ r.status = 404
    /\ r.error = "HTTPException"
    /\ r.errors = {<<"detail", detail>>}
    /\ r.items = <<>>

\* the rows of the configuration table with this product and subcategory
Matching(cat, product_id, subcategory_id) ==
    {i \in 1..Len(cat.configurations) :
        /\ cat.configurations[i].product_id = product_id
        /\ cat.configurations[i].subcategory_id = subcategory_id}

\* what the route must answer on the tables cat for the ids of response r
ConfigurationsAnswer(cat, r, product_id, subcategory_id) ==
    IF product_id \notin cat.products THEN NotFound(r, "Product not found")
    ELSE IF subcategory_id \notin cat.subcategories
    THEN NotFound(r, "Subcategory not found")
    ELSE IF Matching(cat, product_id, subcategory_id) = {}
    THEN NotFound(r, "Configuration not found")
    ELSE /\ r.status = 200
         /\ r.items # <<>>
         /\ Len(r.items) = Cardinality(Matching(cat, product_id, subcategory_id))
         /\ \A i \in 1..Len(r.items) :
               /\ r.items[i].product_id = product_id
               /\ r.items[i].subcategory_id = subcategory_id
               /\ \E j \in 1..Len(cat.configurations) : cat.configurations[j] = r.items[i]

\* C26: get_configuration_by_productid checks product, subcategory,
\* configuration in that order: 404 "Product not found" when no product has
\* the id (whatever the subcategory), otherwise 404 "Subcategory not found",
\* otherwise 404 "Configuration not found" when no configuration matches
\* both; in every other case a non-empty list in which each configuration
\* has that product_id and that subcategory_id.  It never returns an empty
\* list.
C26_ChecksInOrder ==
    [][(out' # out /\ out'.op = "configurations")
          => /\ ConfigurationsAnswer(catalog, out', out'.input[1], out'.input[2])
             /\ ~(out'.status = 200 /\ out'.items = <<>>)]_vars

C26_Witness ==
    /\ out.op = "configurations"
    /\ out.input = <<2, 1>>
    /\ catalog.products = {1}
    /\ catalog.subcategories = {}
    /\ Len(catalog.configurations) = 0
    /\ NotFound(out, "Product not found")

\* the user's sessions stored as active
ActiveOf(st, user_id) ==
    {k \in DOMAIN st.data : st.data[k].user_id = user_id /\ st.data[k].is_active}

\* C27: after every completed create_session the user has at most
\* max_sessions_per_user active sessions, for any sequence of logins.
C27_SessionLimit ==
    \A u \in UserIds : Cardinality(ActiveOf(sessions, u)) <= max_sessions_per_user

\* C28: a terminated session stays invalid: once terminate_session(s) has
\* returned True, every validate_session(s) that completes afterwards returns
\* None and s is never stored as active again, a validate_session(s,
\* update_activity=True) that began earlier and interleaves with the
\* termination at its storage awaits included.
C28_TerminatedStaysInvalid ==
    \A s \in sessions.terminated :
        /\ s \in DOMAIN sessions.data => ~sessions.data[s].is_active
        /\ \A i \in DOMAIN tasks :
              (/\ tasks[i].op = "validate_session"
               /\ tasks[i].sid = s
               /\ tasks[i].pc = "done"
               /\ tasks[i].after)
                  => tasks[i].ret = <<>>

\* the response is that of a failed track_login_attempt
FailedAttempt(r) == r.op = "track_login_attempt" /\ ~r.input[3]

\* the verdict of the k-th failure of a run
KthVerdict(k) == <<k <= login_max_attempts, <<Max(0, login_max_attempts - k)>> >>

\* C29 as stated: the k-th consecutive failed track_login_attempt for the
\* same IP address and username inside one login window returns is_allowed =
\* (k <= login_max_attempts) and attempts_remaining = max(0,
\* login_max_attempts - k).
C29_KthFailure ==
    [][(FailedAttempt(out') /\ limiter' # limiter)
          => out'.items = KthVerdict(limiter'.run.k)]_vars

\* C29, amended: the statement holds of a run of failures whose first call
\* found no counter for the IP address nor for the username (a first use,
\* after a success for the pair, or once the window has passed); a call with
\* success=True returns (True, None) and deletes both counters, so the next
\* failure for the pair counts as the first again.
C29_KthFailureFromNoCounters ==
    [][/\ (FailedAttempt(out') /\ limiter' # limiter /\ limiter'.run.clean)
            => out'.items = KthVerdict(limiter'.run.k)
       /\ (out'.op = "track_login_attempt" /\ out'.input[3]
           /\ (limiter' # limiter \/ out' # out))
            => /\ out'.items = <<TRUE, <<>> >>
               /\ ~Present(limiter', IpKey(out'.input[1]))
               /\ ~Present(limiter', UsernameKey(out'.input[2]))
               /\ RunAfter(limiter', out'.input[1], out'.input[2]).clean
               /\ RunAfter(limiter', out'.input[1], out'.input[2]).k = 1]_vars

C29_Witness ==
    /\ FailedAttempt(out)
    /\ limiter.run.clean
    /\ limiter.run.k = login_max_attempts + 1
    /\ out.items = <<FALSE, <<0>> >>
    /\ limiter.data[IpKey(out.input[1])].count = login_max_attempts + 1

====
